---------------------------- MODULE Spec2Model ----------------------------
(***************************************************************************)
(* A model of the DCF calculator of src/dcf_calculator.py: the provider    *)
(* fallback of fetch_data, the line-item resolution and free-cash-flow     *)
(* extraction of get_free_cash_flow, the growth and cost-of-capital        *)
(* estimators and the projection arithmetic of calculate_dcf.              *)
(*                                                                         *)
(* Numbers.  The program computes with float64.  The model computes with   *)
(* exact rationals extended by NaN and the two infinities, with numpy's    *)
(* rules for them (a comparison with NaN is false, x/0 is an infinity or   *)
(* NaN, never an exception); rounding error is not modelled.  Statement    *)
(* tables hold float64 cells and unique row labels.                        *)
(***************************************************************************)
EXTENDS Integers, Sequences, FiniteSets, TLC

VARIABLES info, financials, cashflow, balance_sheet, use_sec_data, last

vars == <<info, financials, cashflow, balance_sheet, use_sec_data, last>>

(***************************************************************************)
(* Extended rationals: [k, n, d] with k = "num" (n/d, d > 0, lowest        *)
(* terms), "inf" (n = 1 or -1), "nan", or "none" (Python's None).          *)
(***************************************************************************)
RECURSIVE Gcd(_, _)
Gcd(a, b) == IF b = 0 THEN a ELSE Gcd(b, a % b)

AbsInt(i) == IF i < 0 THEN -i ELSE i

SignInt(i) == IF i < 0 THEN -1 ELSE IF i = 0 THEN 0 ELSE 1

Q(n, d) ==
  LET s == IF d < 0 THEN -1 ELSE 1
      g == Gcd(AbsInt(n), AbsInt(d))
  IN  [k |-> "num", n |-> (s * n) \div g, d |-> (s * d) \div g]

R(i) == [k |-> "num", n |-> i, d |-> 1]

NaN == [k |-> "nan", n |-> 0, d |-> 1]

Inf(s) == [k |-> "inf", n |-> s, d |-> 1]

None == [k |-> "none", n |-> 0, d |-> 1]

IsNaN(x) == x.k = "nan"

IsNone(x) == x.k = "none"

IsFinite(x) == x.k = "num"

Sign(x) == SignInt(x.n)

\* a < b, false whenever either side is NaN
Lt(a, b) ==
  CASE IsNaN(a) \/ IsNaN(b) -> FALSE
    [] a.k = "inf" /\ b.k = "inf" -> a.n < b.n
    [] a.k = "inf" -> a.n < 0
    [] b.k = "inf" -> b.n > 0
    [] OTHER -> a.n * b.d < b.n * a.d

Gt(a, b) == Lt(b, a)

\* a == b, false whenever either side is NaN
Eq(a, b) == ~IsNaN(a) /\ ~IsNaN(b) /\ a = b

Ne(a, b) == ~Eq(a, b)

Ge(a, b) == Gt(a, b) \/ Eq(a, b)

Le(a, b) == Lt(a, b) \/ Eq(a, b)

Neg(a) == IF a.k = "nan" THEN NaN ELSE [a EXCEPT !.n = -a.n]

Abs(a) == IF a.k = "nan" THEN NaN ELSE [a EXCEPT !.n = AbsInt(a.n)]

Add(a, b) ==
  CASE IsNaN(a) \/ IsNaN(b) -> NaN
    [] a.k = "inf" /\ b.k = "inf" -> IF a.n = b.n THEN a ELSE NaN
    [] a.k = "inf" -> a
    [] b.k = "inf" -> b
    [] OTHER ->
         LET g == Gcd(a.d, b.d)
         IN  Q(a.n * (b.d \div g) + b.n * (a.d \div g), a.d * (b.d \div g))

Sub(a, b) == Add(a, Neg(b))

Mul(a, b) ==
  CASE IsNaN(a) \/ IsNaN(b) -> NaN
    [] a.k = "inf" \/ b.k = "inf" ->
         IF Sign(a) * Sign(b) = 0 THEN NaN ELSE Inf(Sign(a) * Sign(b))
    [] OTHER ->
         LET g1 == Gcd(AbsInt(a.n), b.d)
             g2 == Gcd(AbsInt(b.n), a.d)
         IN  Q((a.n \div g1) * (b.n \div g2), (a.d \div g2) * (b.d \div g1))

\* float64 division: a zero divisor gives an infinity or NaN
Div(a, b) ==
  CASE IsNaN(a) \/ IsNaN(b) -> NaN
    [] a.k = "inf" /\ b.k = "inf" -> NaN
    [] a.k = "inf" -> Inf(IF Sign(b) < 0 THEN -a.n ELSE a.n)
    [] b.k = "inf" -> R(0)
    [] b.n = 0 -> IF a.n = 0 THEN NaN ELSE Inf(Sign(a))
    [] OTHER -> Mul(a, Q(b.d, b.n))

RECURSIVE Pow(_, _)
Pow(a, e) == IF e = 0 THEN R(1) ELSE Mul(a, Pow(a, e - 1))


(***************************************************************************)
(* Labels.  Row and column labels are strings; Chars gives the characters  *)
(* of every label of the universe and of every token the program looks     *)
(* for, so that str(label)[:10], lower() and the substring tests are       *)
(* computed, and LabelRank the position of a label in Python's string      *)
(* order, which sort_index uses.                                           *)
(***************************************************************************)
CashflowLabels ==
  { "Operating Cash Flow", "Total Cash From Operating Activities",
    "NetCashProvidedByUsedInOperatingActivities",
    "Net Cash Provided by Operating Activities",
    "Net Cash From Operating Activity",
    "Capital Expenditure", "CapitalExpenditures", "Capex",
    "Purchase of Property, Plant and Equipment", "Net Income" }

BalanceLabels ==
  { "Total Debt", "Long Term Debt", "Current Debt", "Cash And Cash Equivalents" }

IncomeLabels == { "Interest Expense", "Total Revenue" }

PeriodLabels ==
  { "2023-12-31", "2022-12-31", "2021-12-31", "2020-12-31", "2019-12-31",
    "Current", "Prior", "Sep 30, 2023" }

Labels == CashflowLabels \cup BalanceLabels \cup IncomeLabels \cup PeriodLabels

Chars ==
  [ s \in {"Operating Cash Flow", "Total Cash From Operating Activities", "NetCashProvidedByUsedInOperatingActivities", "Net Cash Provided by Operating Activities", "Net Cash From Operating Activity", "Capital Expenditure", "CapitalExpenditures", "Capex", "Purchase of Property, Plant and Equipment", "Net Income", "Total Debt", "Long Term Debt", "Current Debt", "Cash And Cash Equivalents", "Interest Expense", "Total Revenue", "2023-12-31", "2022-12-31", "2021-12-31", "2020-12-31", "2019-12-31", "Current", "Prior", "Sep 30, 2023", "operating", "cashfromoperating", "cashprovidedby", "activity", "netcash", "capital", "expenditure", "property", "plant", "equipment", "capex", "payment", "acquisition", "202", "201", "Q1", "Q2", "Q3", "Q4", "activit"} |->
    CASE s = "Operating Cash Flow" -> <<"O","p","e","r","a","t","i","n","g"," ","C","a","s","h"," ","F","l","o","w">>
      [] s = "Total Cash From Operating Activities" -> <<"T","o","t","a","l"," ","C","a","s","h"," ","F","r","o","m"," ","O","p","e","r","a","t","i","n","g"," ","A","c","t","i","v","i","t","i","e","s">>
      [] s = "NetCashProvidedByUsedInOperatingActivities" -> <<"N","e","t","C","a","s","h","P","r","o","v","i","d","e","d","B","y","U","s","e","d","I","n","O","p","e","r","a","t","i","n","g","A","c","t","i","v","i","t","i","e","s">>
      [] s = "Net Cash Provided by Operating Activities" -> <<"N","e","t"," ","C","a","s","h"," ","P","r","o","v","i","d","e","d"," ","b","y"," ","O","p","e","r","a","t","i","n","g"," ","A","c","t","i","v","i","t","i","e","s">>
      [] s = "Net Cash From Operating Activity" -> <<"N","e","t"," ","C","a","s","h"," ","F","r","o","m"," ","O","p","e","r","a","t","i","n","g"," ","A","c","t","i","v","i","t","y">>
      [] s = "Capital Expenditure" -> <<"C","a","p","i","t","a","l"," ","E","x","p","e","n","d","i","t","u","r","e">>
      [] s = "CapitalExpenditures" -> <<"C","a","p","i","t","a","l","E","x","p","e","n","d","i","t","u","r","e","s">>
      [] s = "Capex" -> <<"C","a","p","e","x">>
      [] s = "Purchase of Property, Plant and Equipment" -> <<"P","u","r","c","h","a","s","e"," ","o","f"," ","P","r","o","p","e","r","t","y",","," ","P","l","a","n","t"," ","a","n","d"," ","E","q","u","i","p","m","e","n","t">>
      [] s = "Net Income" -> <<"N","e","t"," ","I","n","c","o","m","e">>
      [] s = "Total Debt" -> <<"T","o","t","a","l"," ","D","e","b","t">>
      [] s = "Long Term Debt" -> <<"L","o","n","g"," ","T","e","r","m"," ","D","e","b","t">>
      [] s = "Current Debt" -> <<"C","u","r","r","e","n","t"," ","D","e","b","t">>
      [] s = "Cash And Cash Equivalents" -> <<"C","a","s","h"," ","A","n","d"," ","C","a","s","h"," ","E","q","u","i","v","a","l","e","n","t","s">>
      [] s = "Interest Expense" -> <<"I","n","t","e","r","e","s","t"," ","E","x","p","e","n","s","e">>
      [] s = "Total Revenue" -> <<"T","o","t","a","l"," ","R","e","v","e","n","u","e">>
      [] s = "2023-12-31" -> <<"2","0","2","3","-","1","2","-","3","1">>
      [] s = "2022-12-31" -> <<"2","0","2","2","-","1","2","-","3","1">>
      [] s = "2021-12-31" -> <<"2","0","2","1","-","1","2","-","3","1">>
      [] s = "2020-12-31" -> <<"2","0","2","0","-","1","2","-","3","1">>
      [] s = "2019-12-31" -> <<"2","0","1","9","-","1","2","-","3","1">>
      [] s = "Current" -> <<"C","u","r","r","e","n","t">>
      [] s = "Prior" -> <<"P","r","i","o","r">>
      [] s = "Sep 30, 2023" -> <<"S","e","p"," ","3","0",","," ","2","0","2","3">>
      [] s = "operating" -> <<"o","p","e","r","a","t","i","n","g">>
      [] s = "cashfromoperating" -> <<"c","a","s","h","f","r","o","m","o","p","e","r","a","t","i","n","g">>
      [] s = "cashprovidedby" -> <<"c","a","s","h","p","r","o","v","i","d","e","d","b","y">>
      [] s = "activity" -> <<"a","c","t","i","v","i","t","y">>
      [] s = "netcash" -> <<"n","e","t","c","a","s","h">>
      [] s = "capital" -> <<"c","a","p","i","t","a","l">>
      [] s = "expenditure" -> <<"e","x","p","e","n","d","i","t","u","r","e">>
      [] s = "property" -> <<"p","r","o","p","e","r","t","y">>
      [] s = "plant" -> <<"p","l","a","n","t">>
      [] s = "equipment" -> <<"e","q","u","i","p","m","e","n","t">>
      [] s = "capex" -> <<"c","a","p","e","x">>
      [] s = "payment" -> <<"p","a","y","m","e","n","t">>
      [] s = "acquisition" -> <<"a","c","q","u","i","s","i","t","i","o","n">>
      [] s = "202" -> <<"2","0","2">>
      [] s = "201" -> <<"2","0","1">>
      [] s = "Q1" -> <<"Q","1">>
      [] s = "Q2" -> <<"Q","2">>
      [] s = "Q3" -> <<"Q","3">>
      [] s = "Q4" -> <<"Q","4">>
      [] s = "activit" -> <<"a","c","t","i","v","i","t">> ]

LabelRank ==
  [ s \in Labels |->
    CASE s = "Operating Cash Flow" -> 18
      [] s = "Total Cash From Operating Activities" -> 22
      [] s = "NetCashProvidedByUsedInOperatingActivities" -> 17
      [] s = "Net Cash Provided by Operating Activities" -> 15
      [] s = "Net Cash From Operating Activity" -> 14
      [] s = "Capital Expenditure" -> 7
      [] s = "CapitalExpenditures" -> 8
      [] s = "Capex" -> 6
      [] s = "Purchase of Property, Plant and Equipment" -> 20
      [] s = "Net Income" -> 16
      [] s = "Total Debt" -> 23
      [] s = "Long Term Debt" -> 13
      [] s = "Current Debt" -> 11
      [] s = "Cash And Cash Equivalents" -> 9
      [] s = "Interest Expense" -> 12
      [] s = "Total Revenue" -> 24
      [] s = "2023-12-31" -> 5
      [] s = "2022-12-31" -> 4
      [] s = "2021-12-31" -> 3
      [] s = "2020-12-31" -> 2
      [] s = "2019-12-31" -> 1
      [] s = "Current" -> 10
      [] s = "Prior" -> 19
      [] s = "Sep 30, 2023" -> 21 ]

LowerChar(c) ==
  CASE c = "A" -> "a"
    [] c = "B" -> "b"
    [] c = "C" -> "c"
    [] c = "D" -> "d"
    [] c = "E" -> "e"
    [] c = "F" -> "f"
    [] c = "G" -> "g"
    [] c = "H" -> "h"
    [] c = "I" -> "i"
    [] c = "J" -> "j"
    [] c = "K" -> "k"
    [] c = "L" -> "l"
    [] c = "M" -> "m"
    [] c = "N" -> "n"
    [] c = "O" -> "o"
    [] c = "P" -> "p"
    [] c = "Q" -> "q"
    [] c = "R" -> "r"
    [] c = "S" -> "s"
    [] c = "T" -> "t"
    [] c = "U" -> "u"
    [] c = "V" -> "v"
    [] c = "W" -> "w"
    [] c = "X" -> "x"
    [] c = "Y" -> "y"
    [] c = "Z" -> "z"
    [] OTHER -> c

lower(s) == [i \in 1..Len(s) |-> LowerChar(s[i])]

\* sub in s, for sequences of characters
Contains(s, sub) ==
  \E i \in 0..(Len(s) - Len(sub)) :
    \A j \in 1..Len(sub) : s[i + j] = sub[j]

\* s[:n]
Prefix(s, n) == SubSeq(s, 1, IF Len(s) < n THEN Len(s) ELSE n)

(***************************************************************************)
(* Tables.  A DataFrame is [kind, index, columns, data, provider]: data[i] *)
(* is the row of index[i], aligned to columns.  provider records which     *)
(* source supplied the table and fresh whether the latest fetch_data call  *)
(* obtained it; the program reads neither.  A Series is [index, values].   *)
(***************************************************************************)
DataFrame(index, columns, data, provider) ==
  [kind |-> "DataFrame", index |-> index, columns |-> columns, data |-> data,
   provider |-> provider, fresh |-> TRUE]

NoneDF ==
  [kind |-> "None", index |-> <<>>, columns |-> <<>>, data |-> <<>>,
   provider |-> "none", fresh |-> TRUE]

IsNoneDF(df) == df.kind = "None"

Series(index, values) == [index |-> index, values |-> values]

EmptySeries == Series(<<>>, <<>>)

\* key in df.index
InIndex(df, key) == \E i \in 1..Len(df.index) : df.index[i] = key

\* df.loc[key]
Loc(df, key) ==
  LET i == CHOOSE i \in 1..Len(df.index) : df.index[i] = key
  IN  Series(df.columns, df.data[i])

\* df.T
Transpose(df) ==
  [df EXCEPT !.index = df.columns,
             !.columns = df.index,
             !.data = [c \in 1..Len(df.columns) |->
                        [r \in 1..Len(df.index) |-> df.data[r][c]]]]

(***************************************************************************)
(* get_free_cash_flow: line-item resolution and free-cash-flow extraction  *)
(***************************************************************************)
operating_cf_keys ==
  << "Operating Cash Flow", "Total Cash From Operating Activities",
     "NetCashProvidedByUsedInOperatingActivities",
     "CashProvidedByUsedInOperatingActivities",
     "CashFromOperatingActivities", "OperatingActivitiesCashFlow" >>

capex_keys ==
  << "Capital Expenditure", "Capital Expenditures",
     "PaymentsForAcquisitionOfPropertyPlantAndEquipment",
     "PurchaseOfPropertyPlantAndEquipment", "CapitalExpenditures", "Capex" >>

\* the value of a row variable that is still None
NoRow == ""

\* the search with its loops exchanged: the first row that is one of the keys
RECURSIVE FirstKeyInRowOrder(_, _, _)
FirstKeyInRowOrder(keys, df, i) ==
  IF i > Len(df.index) THEN NoRow
  ELSE IF \E k \in 1..Len(keys) : keys[k] = df.index[i] THEN df.index[i]
  ELSE FirstKeyInRowOrder(keys, df, i + 1)

\* for key in keys: if key in df.index: row = df.loc[key]; break
RECURSIVE FirstKey(_, _, _)
FirstKey(keys, df, i) ==
  IF i > Len(keys) THEN NoRow
  ELSE IF InIndex(df, keys[i]) THEN keys[i]
  ELSE FirstKey(keys, df, i + 1)

\* the keyword tests are evaluated once per label of the universe
OperatingKeywordOf ==
  [label \in Labels |->
    LET idx_str == lower(Chars[label])
        has(t) == Contains(idx_str, Chars[t])
    IN  \/ /\ (has("operating") \/ has("cashfromoperating") \/ has("cashprovidedby"))
           /\ has("activity")
        \/ (has("netcash") /\ has("operating"))]

OperatingKeyword(label) == OperatingKeywordOf[label]

CapexKeywordOf ==
  [label \in Labels |->
    LET idx_str == lower(Chars[label])
        has(t) == Contains(idx_str, Chars[t])
    IN  \/ (has("capital") /\ has("expenditure"))
        \/ (has("property") /\ has("plant") /\ has("equipment"))
        \/ has("capex")
        \/ (has("payment") /\ has("acquisition") /\ has("property"))]

CapexKeyword(label) == CapexKeywordOf[label]

\* for idx in df.index: if <keywords>: row = df.loc[idx]; break
RECURSIVE FirstOperatingKeywordRow(_, _)
FirstOperatingKeywordRow(df, i) ==
  IF i > Len(df.index) THEN NoRow
  ELSE IF OperatingKeyword(df.index[i]) THEN df.index[i]
  ELSE FirstOperatingKeywordRow(df, i + 1)

RECURSIVE FirstCapexKeywordRow(_, _)
FirstCapexKeywordRow(df, i) ==
  IF i > Len(df.index) THEN NoRow
  ELSE IF CapexKeyword(df.index[i]) THEN df.index[i]
  ELSE FirstCapexKeywordRow(df, i + 1)

ResolveOperatingCF(df) ==
  LET byKey == FirstKey(operating_cf_keys, df, 1)
  IN  IF byKey # NoRow THEN byKey ELSE FirstOperatingKeywordRow(df, 1)

ResolveCapex(df) ==
  LET byKey == FirstKey(capex_keys, df, 1)
  IN  IF byKey # NoRow THEN byKey ELSE FirstCapexKeywordRow(df, 1)

\* Series.min(): NaN cells are skipped; NaN when nothing is left
RECURSIVE SeriesMin(_, _)
SeriesMin(values, i) ==
  IF i > Len(values) THEN NaN
  ELSE LET rest == SeriesMin(values, i + 1)
       IN  IF IsNaN(values[i]) THEN rest
           ELSE IF IsNaN(rest) \/ Lt(values[i], rest) THEN values[i]
           ELSE rest

\* the capex row taken as reported
CapexAsReported(capex) == capex

\* the sign decided entry by entry: each non-negative amount is negated
NormalizeCapexPerEntry(capex) ==
  Series(capex.index,
         [i \in 1..Len(capex.values) |->
            IF Ge(capex.values[i], R(0)) THEN Neg(Abs(capex.values[i]))
            ELSE capex.values[i]])

\* if capex.min() >= 0: capex = -abs(capex)
NormalizeCapex(capex) ==
  IF Ge(SeriesMin(capex.values, 1), R(0))
  THEN Series(capex.index, [i \in 1..Len(capex.values) |-> Neg(Abs(capex.values[i]))])
  ELSE capex

\* fcf = operating_cf - capex, two rows of one table
SeriesSub(a, b) ==
  Series(a.index, [i \in 1..Len(a.values) |-> Sub(a.values[i], b.values[i])])

\* Series.sort_index() with the default ascending order
SortIndexAscending(s) ==
  LET n == Len(s.index)
      at(p) == CHOOSE i \in 1..n :
                 Cardinality({j \in 1..n :
                   LabelRank[s.index[j]] < LabelRank[s.index[i]]}) = p - 1
  IN  Series([p \in 1..n |-> s.index[at(p)]], [p \in 1..n |-> s.values[at(p)]])

\* Series.sort_index(ascending=False), the labels being distinct
SortIndexDescending(s) ==
  LET n == Len(s.index)
      at(p) == CHOOSE i \in 1..n :
                 Cardinality({j \in 1..n :
                   LabelRank[s.index[j]] > LabelRank[s.index[i]]}) = p - 1
  IN  Series([p \in 1..n |-> s.index[at(p)]], [p \in 1..n |-> s.values[at(p)]])

\* Series.head(years), years >= 0
SeriesHead(s, years) ==
  LET m == IF years < Len(s.index) THEN years ELSE Len(s.index)
  IN  Series(SubSeq(s.index, 1, m), SubSeq(s.values, 1, m))

\* get_free_cash_flow returning the operating cash flow alone when no capex
\* row is found
get_free_cash_flow_without_capex(cf, years) ==
  IF IsNoneDF(cf) \/ Len(cf.index) = 0
  THEN [ret |-> EmptySeries, operating_cf |-> NoRow, capex |-> NoRow]
  ELSE LET operating_cf == ResolveOperatingCF(cf)
           capex == ResolveCapex(cf)
       IN  IF operating_cf = NoRow
           THEN [ret |-> EmptySeries, operating_cf |-> operating_cf, capex |-> capex]
           ELSE LET fcf == IF capex = NoRow THEN Loc(cf, operating_cf)
                           ELSE SeriesSub(Loc(cf, operating_cf),
                                          NormalizeCapex(Loc(cf, capex)))
                IN  [ret |-> SeriesHead(SortIndexDescending(fcf), years),
                     operating_cf |-> operating_cf, capex |-> capex]

\* The result, with the rows the two searches ended on.
get_free_cash_flow(cf, years) ==
  IF IsNoneDF(cf) \/ Len(cf.index) = 0
  THEN [ret |-> EmptySeries, operating_cf |-> NoRow, capex |-> NoRow]
  ELSE LET operating_cf == ResolveOperatingCF(cf)
           capex == ResolveCapex(cf)
       IN  IF operating_cf = NoRow \/ capex = NoRow
           THEN [ret |-> EmptySeries, operating_cf |-> operating_cf, capex |-> capex]
           ELSE LET fcf == SeriesSub(Loc(cf, operating_cf),
                                     NormalizeCapex(Loc(cf, capex)))
                IN  [ret |-> SeriesHead(SortIndexDescending(fcf), years),
                     operating_cf |-> operating_cf, capex |-> capex]

(***************************************************************************)
(* calculate_growth_rate                                                   *)
(***************************************************************************)
\* get_free_cash_flow(years=5), as calculate_growth_rate and calculate_dcf call it
FcfYears == 5

\* the resolution of the k-th root taken by the "cagr" method: 1/RootScale
RootScale == 100

RECURSIVE IntPow(_, _)
IntPow(b, e) == IF e = 0 THEN 1 ELSE b * IntPow(b, e - 1)

\* x ** (1 / e) in float64: NaN for a negative base and e > 1; a positive
\* root is cut to a multiple of 1/RootScale
Root(x, e) ==
  CASE IsNaN(x) -> NaN
    [] e = 1 -> x
    [] Sign(x) < 0 -> NaN
    [] x.k = "inf" -> x
    [] x.n = 0 -> x
    [] OTHER ->
         LET fits(q) == IntPow(q, e) * x.d <= x.n * IntPow(RootScale, e)
             q == CHOOSE q \in 0..(RootScale * x.n) : fits(q) /\ ~fits(q + 1)
         IN  Q(q, RootScale)

\* the ratios with a growth of zero entered for every pair left out
RECURSIVE GrowthRatesCountingSkipped(_, _)
GrowthRatesCountingSkipped(fcf_values, i) ==
  IF i + 1 > Len(fcf_values) THEN <<>>
  ELSE IF Ne(fcf_values[i + 1], R(0)) /\ ~IsNaN(fcf_values[i + 1])
       THEN <<Div(Sub(fcf_values[i], fcf_values[i + 1]), Abs(fcf_values[i + 1]))>>
              \o GrowthRatesCountingSkipped(fcf_values, i + 1)
       ELSE <<R(0)>> \o GrowthRatesCountingSkipped(fcf_values, i + 1)

\* the year-over-year ratios of the "average" method, from pair i on
RECURSIVE GrowthRates(_, _)
GrowthRates(fcf_values, i) ==
  IF i + 1 > Len(fcf_values) THEN <<>>
  ELSE IF Ne(fcf_values[i + 1], R(0)) /\ ~IsNaN(fcf_values[i + 1])
       THEN <<Div(Sub(fcf_values[i], fcf_values[i + 1]), Abs(fcf_values[i + 1]))>>
              \o GrowthRates(fcf_values, i + 1)
       ELSE GrowthRates(fcf_values, i + 1)

RECURSIVE Sum(_, _)
Sum(values, i) ==
  IF i > Len(values) THEN R(0) ELSE Add(values[i], Sum(values, i + 1))

\* np.mean of a non-empty list
Mean(values) == Div(Sum(values, 1), R(Len(values)))

GrowthAverage(fcf_values) ==
  LET growth_rates == GrowthRates(fcf_values, 1)
  IN  IF Len(growth_rates) > 0 THEN Mean(growth_rates) ELSE R(0)

GrowthCagr(fcf_values) ==
  LET n == Len(fcf_values)
  IN  IF n >= 2 /\ Ne(fcf_values[n], R(0))
      THEN Sub(Root(Div(fcf_values[1], Abs(fcf_values[n])), n - 1), R(1))
      ELSE R(0)

\* the recent growth taken over the latest year instead of the one before
GrowthRecentOverLatest(fcf_values) ==
  IF Len(fcf_values) >= 2 /\ Ne(fcf_values[2], R(0))
  THEN Div(Sub(fcf_values[1], fcf_values[2]), Abs(fcf_values[1]))
  ELSE R(0)

GrowthRecent(fcf_values) ==
  IF Len(fcf_values) >= 2 /\ Ne(fcf_values[2], R(0))
  THEN Div(Sub(fcf_values[1], fcf_values[2]), Abs(fcf_values[2]))
  ELSE R(0)

calculate_growth_rate(cf, method) ==
  LET fcf == get_free_cash_flow(cf, FcfYears).ret
  IN  IF Len(fcf.values) < 2 THEN R(0)
      ELSE CASE method = "average" -> GrowthAverage(fcf.values)
             [] method = "cagr" -> GrowthCagr(fcf.values)
             [] method = "recent" -> GrowthRecent(fcf.values)
             [] OTHER -> R(0)

(***************************************************************************)
(* The market snapshot: info is None or a dict.  A key of the dict holds a *)
(* number, NaN, None, a string (k = "str") or is absent (k = "absent");    *)
(* other says whether the dict has keys besides the five read here.        *)
(***************************************************************************)
Absent == [k |-> "absent", n |-> 0, d |-> 1]

Str == [k |-> "str", n |-> 0, d |-> 1]

NoneInfo ==
  [kind |-> "None", other |-> FALSE, beta |-> Absent, marketCap |-> Absent,
   sharesOutstanding |-> Absent, currentPrice |-> Absent, taxRate |-> Absent]

InfoKeys == {"beta", "marketCap", "sharesOutstanding", "currentPrice", "taxRate"}

\* len(info) == 0
InfoEmpty(i) == ~i.other /\ \A key \in InfoKeys : i[key] = Absent

\* the truth value of self.info
InfoTruthy(i) == i.kind = "dict" /\ ~InfoEmpty(i)

\* self.info.get(key, default) if self.info else default
InfoGet(i, key, default) ==
  IF InfoTruthy(i) /\ i[key] # Absent THEN i[key] ELSE default

\* Python's min(a, b) and max(a, b): the first argument unless the second is
\* strictly smaller (larger)
PyMin(a, b) == IF Lt(b, a) THEN b ELSE a

PyMax(a, b) == IF Gt(b, a) THEN b ELSE a

(***************************************************************************)
(* calculate_wacc                                                          *)
(***************************************************************************)
DefaultCostOfDebt == Q(5, 100)

DefaultTaxRate == Q(25, 100)

FallbackEquityWeight == Q(7, 10)

FallbackDebtWeight == Q(3, 10)

WaccFloor == Q(1, 100)

DefaultWacc == Q(10, 100)

\* row.iloc[0] raises IndexError on a row without cells
FirstCellRaises(df, key) == InIndex(df, key) /\ Len(df.columns) = 0

FirstCell(df, key) == Loc(df, key).values[1]

\* whether reading total debt raises, and the value read otherwise
TotalDebtRaises(bs) ==
  IF InIndex(bs, "Total Debt") THEN FirstCellRaises(bs, "Total Debt")
  ELSE /\ InIndex(bs, "Long Term Debt") /\ InIndex(bs, "Current Debt")
       /\ Len(bs.columns) = 0

TotalDebt(bs) ==
  IF InIndex(bs, "Total Debt") THEN FirstCell(bs, "Total Debt")
  ELSE IF InIndex(bs, "Long Term Debt") /\ InIndex(bs, "Current Debt")
  THEN Add(FirstCell(bs, "Long Term Debt"), FirstCell(bs, "Current Debt"))
  ELSE R(0)

\* whether the body of calculate_wacc raises (and 0.10 is returned)
WaccRaises(i, fin, bs) ==
  \/ ~IsNoneDF(fin) /\ FirstCellRaises(fin, "Interest Expense")
  \/ ~IsNoneDF(bs) /\ TotalDebtRaises(bs)
  \/ InfoGet(i, "beta", R(1)) = Str
  \/ InfoGet(i, "marketCap", R(0)) = Str
  \/ InfoGet(i, "taxRate", DefaultTaxRate) = Str

\* lines 304-317: the capital-structure weights
Weights(i, bs) ==
  LET total_debt == IF ~IsNoneDF(bs) THEN TotalDebt(bs) ELSE R(0)
      market_cap0 == InfoGet(i, "marketCap", R(0))
      market_cap == IF IsNone(market_cap0) \/ IsNaN(market_cap0) THEN R(0)
                    ELSE market_cap0
      enterprise_value == Add(market_cap, total_debt)
      zero == Eq(enterprise_value, R(0))
  IN  [equity_weight |-> IF zero THEN FallbackEquityWeight
                         ELSE Div(market_cap, enterprise_value),
       debt_weight |-> IF zero THEN FallbackDebtWeight
                       ELSE Div(total_debt, enterprise_value)]

WaccValue(i, fin, bs, risk_free_rate, market_risk_premium) ==
  LET beta0 == InfoGet(i, "beta", R(1))
      beta == IF IsNone(beta0) \/ IsNaN(beta0) THEN R(1) ELSE beta0
      interest_expense ==
        IF ~IsNoneDF(fin) /\ InIndex(fin, "Interest Expense")
        THEN Abs(FirstCell(fin, "Interest Expense")) ELSE R(0)
      total_debt == IF ~IsNoneDF(bs) THEN TotalDebt(bs) ELSE R(0)
      cost_of_debt == IF Gt(total_debt, R(0)) THEN Div(interest_expense, total_debt)
                      ELSE DefaultCostOfDebt
      equity_weight == Weights(i, bs).equity_weight
      debt_weight == Weights(i, bs).debt_weight
      cost_of_equity == Add(risk_free_rate, Mul(beta, market_risk_premium))
      tax_rate0 == InfoGet(i, "taxRate", DefaultTaxRate)
      tax_rate == IF IsNone(tax_rate0) \/ IsNaN(tax_rate0) THEN DefaultTaxRate
                  ELSE tax_rate0
      wacc == Add(Mul(equity_weight, cost_of_equity),
                  Mul(Mul(debt_weight, cost_of_debt), Sub(R(1), tax_rate)))
  IN  PyMax(wacc, WaccFloor)

\* calculate_wacc whose handler returns the floor
calculate_wacc_floor_default(i, fin, bs, risk_free_rate, market_risk_premium) ==
  IF WaccRaises(i, fin, bs) THEN WaccFloor
  ELSE WaccValue(i, fin, bs, risk_free_rate, market_risk_premium)

calculate_wacc(i, fin, bs, risk_free_rate, market_risk_premium) ==
  IF WaccRaises(i, fin, bs) THEN DefaultWacc
  ELSE WaccValue(i, fin, bs, risk_free_rate, market_risk_premium)

(***************************************************************************)
(* calculate_dcf.  A call ends in a return or in an exception that leaves  *)
(* the method: [exc, val] with exc = "" for a return.                      *)
(***************************************************************************)
Return(v) == [exc |-> "", val |-> v]

Raise(e) == [exc |-> e, val |-> <<>>]

GrowthCap == Q(50, 100)

GrowthFloor == Q(-20, 100)

\* growth_rate = max(min(growth_rate, 0.50), -0.20)
ClampGrowth(growth_rate) == PyMax(PyMin(growth_rate, GrowthCap), GrowthFloor)

\* the projection with its years counted from 0: range(projection_years)
ProjectedFcfFromYearZero(current_fcf, growth_rate, discount_rate, projection_years) ==
  [y \in 1..projection_years |->
     LET year == y - 1
         projected_fcf_year == Mul(current_fcf, Pow(Add(R(1), growth_rate), year))
     IN  [year |-> year,
          fcf |-> projected_fcf_year,
          discounted_fcf |->
            Div(projected_fcf_year, Pow(Add(R(1), discount_rate), year))]]

\* for year in range(1, projection_years + 1): projected_fcf.append({...})
ProjectedFcf(current_fcf, growth_rate, discount_rate, projection_years) ==
  [year \in 1..projection_years |->
     LET projected_fcf_year == Mul(current_fcf, Pow(Add(R(1), growth_rate), year))
     IN  [year |-> year,
          fcf |-> projected_fcf_year,
          discounted_fcf |->
            Div(projected_fcf_year, Pow(Add(R(1), discount_rate), year))]]

\* terminal_value = final_year_fcf * (1 + tg) / (discount_rate - tg)
TerminalValue(final_year_fcf, discount_rate, terminal_growth_rate) ==
  Div(Mul(final_year_fcf, Add(R(1), terminal_growth_rate)),
      Sub(discount_rate, terminal_growth_rate))

\* sum([year['discounted_fcf'] for year in projected_fcf])
RECURSIVE SumDiscounted(_, _)
SumDiscounted(projected_fcf, i) ==
  IF i > Len(projected_fcf) THEN R(0)
  ELSE Add(projected_fcf[i].discounted_fcf, SumDiscounted(projected_fcf, i + 1))

\* whether the net-debt block raises IndexError, and its value otherwise
NetDebtRaises(bs) ==
  /\ ~IsNoneDF(bs)
  /\ \/ TotalDebtRaises(bs)
     \/ FirstCellRaises(bs, "Cash And Cash Equivalents")

NetDebt(bs) ==
  IF IsNoneDF(bs) THEN R(0)
  ELSE LET cash_and_equivalents ==
             IF InIndex(bs, "Cash And Cash Equivalents")
             THEN FirstCell(bs, "Cash And Cash Equivalents") ELSE R(0)
       IN  Sub(TotalDebt(bs), cash_and_equivalents)

\* the share count with the None test alone
SharesOutstandingNoneOnly(i) ==
  LET shares_outstanding == InfoGet(i, "sharesOutstanding", R(0))
  IN  IF IsNone(shares_outstanding) THEN R(1) ELSE shares_outstanding

SharesOutstanding(i) ==
  LET shares_outstanding == InfoGet(i, "sharesOutstanding", R(0))
  IN  IF IsNone(shares_outstanding) \/ Eq(shares_outstanding, R(0)) THEN R(1)
      ELSE shares_outstanding

CurrentPrice(i) ==
  LET current_price == InfoGet(i, "currentPrice", R(0))
  IN  IF IsNone(current_price) THEN R(0) ELSE current_price

FcfError == [error |-> "Could not calculate FCF from financial data"]

\* lines 382-437: the valuation once the projection is made
Valuation(i, a, current_fcf, growth_rate, discount_rate, projected_fcf, net_debt, shares_outstanding) ==
  LET terminal_value ==
        TerminalValue(projected_fcf[Len(projected_fcf)].fcf, discount_rate,
                      a.terminal_growth_rate)
      discounted_terminal_value ==
        Div(terminal_value, Pow(Add(R(1), discount_rate), a.projection_years))
      enterprise_value ==
        Add(SumDiscounted(projected_fcf, 1), discounted_terminal_value)
      equity_value == Sub(enterprise_value, net_debt)
  IN  [projected_fcf |-> projected_fcf,
       terminal_value |-> terminal_value,
       discounted_terminal_value |-> discounted_terminal_value,
       enterprise_value |-> enterprise_value,
       net_debt |-> net_debt,
       equity_value |-> equity_value,
       per_share_value |-> Div(equity_value, shares_outstanding),
       current_price |-> CurrentPrice(i),
       growth_rate |-> growth_rate,
       discount_rate |-> discount_rate,
       terminal_growth_rate |-> a.terminal_growth_rate,
       current_fcf |-> current_fcf,
       shares_outstanding |-> shares_outstanding,
       risk_free_rate |-> a.risk_free_rate,
       market_risk_premium |-> a.market_risk_premium]

\* the projection reporting the growth rate as it was supplied
ProjectReportingSupplied(i, bs, a, current_fcf, growth_rate, discount_rate) ==
  CASE a.projection_years < 1 -> Raise("IndexError")
    [] NetDebtRaises(bs) -> Raise("IndexError")
    [] SharesOutstanding(i) = Str -> Raise("TypeError")
    [] OTHER ->
         Return(Valuation(i, a, current_fcf,
                          IF IsNone(a.growth_rate) THEN growth_rate ELSE a.growth_rate,
                          discount_rate,
                          ProjectedFcf(current_fcf, growth_rate, discount_rate,
                                       a.projection_years),
                          NetDebt(bs), SharesOutstanding(i)))

\* lines 372-437, with the exceptions that leave calculate_dcf: projected_fcf[-1]
\* on an empty projection, .iloc[0] on a balance-sheet row without cells, a
\* division by a share count that is a string
Project(i, bs, a, current_fcf, growth_rate, discount_rate) ==
  CASE a.projection_years < 1 -> Raise("IndexError")
    [] NetDebtRaises(bs) -> Raise("IndexError")
    [] SharesOutstanding(i) = Str -> Raise("TypeError")
    [] OTHER ->
         Return(Valuation(i, a, current_fcf, growth_rate, discount_rate,
                          ProjectedFcf(current_fcf, growth_rate, discount_rate,
                                       a.projection_years),
                          NetDebt(bs), SharesOutstanding(i)))

\* lines 361-366
GrowthUsed(cf, a) ==
  ClampGrowth(IF IsNone(a.growth_rate)
              THEN calculate_growth_rate(cf, a.growth_method)
              ELSE a.growth_rate)

\* lines 368-370
DiscountUsed(i, fin, bs, a) ==
  IF IsNone(a.discount_rate)
  THEN calculate_wacc(i, fin, bs, a.risk_free_rate, a.market_risk_premium)
  ELSE a.discount_rate

\* a names the arguments: growth_rate, growth_method, discount_rate,
\* risk_free_rate, market_risk_premium, projection_years, terminal_growth_rate
calculate_dcf(i, fin, cf, bs, a) ==
  LET fcf_history == get_free_cash_flow(cf, FcfYears).ret
  IN  IF Len(fcf_history.values) = 0 THEN Return(FcfError)
      ELSE Project(i, bs, a, fcf_history.values[1], GrowthUsed(cf, a),
                   DiscountUsed(i, fin, bs, a))

(***************************************************************************)
(* fetch_data.  The providers are the environment: p names what each       *)
(* answers when asked.  A provider's answer of kind "raise" stands for the *)
(* call raising instead of returning.                                      *)
(***************************************************************************)
DateTokens == <<"202", "201", "Q1", "Q2", "Q3", "Q4">>

\* any(x in str(label)[:10] for x in ['202', '201', 'Q1', 'Q2', 'Q3', 'Q4'])
LooksLikePeriodOf ==
  [label \in Labels |->
    \E t \in 1..Len(DateTokens) :
      Contains(Prefix(Chars[label], 10), Chars[DateTokens[t]])]

LooksLikePeriod(label) == LooksLikePeriodOf[label]

normalize_dataframe(df) ==
  IF df.kind # "DataFrame" \/ Len(df.index) = 0 THEN NoneDF
  ELSE IF Len(df.columns) > 0 /\ LooksLikePeriod(df.columns[1]) THEN df
  ELSE LET t == IF Len(df.index) > 0 /\ LooksLikePeriod(df.index[1])
                THEN Transpose(df) ELSE df
       IN  IF Len(t.columns) > 0 /\ Len(t.index) > 0 THEN t ELSE NoneDF

\* df is not None and isinstance(df, pd.DataFrame) and both axes are non-empty
Usable(df) == df.kind = "DataFrame" /\ Len(df.columns) > 0 /\ Len(df.index) > 0

\* if df is None or len(df.columns) == 0: df = None
ClearPartial(df) == IF IsNoneDF(df) \/ Len(df.columns) = 0 THEN NoneDF ELSE df

\* lines 45-120: the statements after the SEC attempt; done when it returned
\* (True, "Success (SEC XBRL data)")
SecStatements(s, p) ==
  IF ~s.use_sec_data \/ p.sec # "ok"
  THEN [financials |-> s.financials, cashflow |-> s.cashflow,
        balance_sheet |-> s.balance_sheet, done |-> FALSE]
  ELSE LET bs == normalize_dataframe(p.sec_balance_sheet)
           fin == normalize_dataframe(p.sec_income_statement)
           cf == normalize_dataframe(p.sec_cash_flow)
       IN  IF Usable(cf) /\ Usable(fin)
           THEN [financials |-> fin, cashflow |-> cf, balance_sheet |-> bs,
                 done |-> TRUE]
           ELSE [financials |-> ClearPartial(fin), cashflow |-> ClearPartial(cf),
                 balance_sheet |-> ClearPartial(bs), done |-> FALSE]

\* df is None or (isinstance(df, pd.DataFrame) and len(df.columns) == 0)
NeedsFallback(df) ==
  IsNoneDF(df) \/ (df.kind = "DataFrame" /\ Len(df.columns) = 0)

\* lines 123-131: each statement still missing is read from yfinance, in the
\* order financials, cashflow, balance_sheet; a read that raises ends the block
YfStatements(t, p) ==
  LET finRaises == NeedsFallback(t.financials) /\ p.yf_financials.kind = "raise"
      fin == IF NeedsFallback(t.financials) /\ ~finRaises
             THEN p.yf_financials ELSE t.financials
      cfRaises == ~finRaises /\ NeedsFallback(t.cashflow) /\ p.yf_cashflow.kind = "raise"
      cf == IF ~finRaises /\ NeedsFallback(t.cashflow) /\ ~cfRaises
            THEN p.yf_cashflow ELSE t.cashflow
      bsRaises == /\ ~finRaises /\ ~cfRaises /\ NeedsFallback(t.balance_sheet)
                  /\ p.yf_balance_sheet.kind = "raise"
      bs == IF ~finRaises /\ ~cfRaises /\ NeedsFallback(t.balance_sheet) /\ ~bsRaises
            THEN p.yf_balance_sheet ELSE t.balance_sheet
  IN  [financials |-> fin, cashflow |-> cf, balance_sheet |-> bs]

\* the check of lines 133-141 without the test for empty statements
EssentialCheckNullOnly(fin, cf) ==
  IF IsNoneDF(fin) \/ IsNoneDF(cf)
  THEN <<FALSE, "Could not fetch financial statements">>
  ELSE <<TRUE, "Success">>

\* lines 133-141
EssentialCheck(fin, cf) ==
  IF IsNoneDF(fin) \/ IsNoneDF(cf)
  THEN <<FALSE, "Could not fetch financial statements">>
  ELSE IF \/ (fin.kind = "DataFrame" /\ Len(fin.columns) = 0)
          \/ (cf.kind = "DataFrame" /\ Len(cf.columns) = 0)
  THEN <<FALSE, "Financial statements are empty">>
  ELSE <<TRUE, "Success">>

\* lines 44-141, the market snapshot being fetched
FetchStatements(s, p) ==
  LET t == SecStatements(s, p)
      y == YfStatements(t, p)
  IN  IF t.done
      THEN [info |-> p.info, financials |-> t.financials,
            cashflow |-> t.cashflow, balance_sheet |-> t.balance_sheet,
            out |-> Return(<<TRUE, "Success (SEC XBRL data)">>)]
      ELSE [info |-> p.info, financials |-> y.financials,
            cashflow |-> y.cashflow, balance_sheet |-> y.balance_sheet,
            out |-> Return(EssentialCheck(y.financials, y.cashflow))]

\* fetch_data without its handlers for a raising self.stock.info
fetch_data_unguarded(s, p) ==
  IF p.info.kind = "raise"
  THEN [info |-> s.info, financials |-> s.financials, cashflow |-> s.cashflow,
        balance_sheet |-> s.balance_sheet, out |-> Raise("Exception")]
  ELSE IF ~InfoTruthy(p.info)
  THEN [info |-> p.info, financials |-> s.financials, cashflow |-> s.cashflow,
        balance_sheet |-> s.balance_sheet,
        out |-> Return(<<FALSE, "Could not fetch market data from yfinance">>)]
  ELSE FetchStatements(s, p)

\* s: the calculator's fields before the call; the result: its fields after
\* the call and how the call ended
fetch_data(s, p) ==
  IF p.info.kind = "raise"
  THEN [info |-> s.info, financials |-> s.financials, cashflow |-> s.cashflow,
        balance_sheet |-> s.balance_sheet,
        out |-> Return(<<FALSE, "Error fetching market data">>)]
  ELSE IF ~InfoTruthy(p.info)
  THEN [info |-> p.info, financials |-> s.financials, cashflow |-> s.cashflow,
        balance_sheet |-> s.balance_sheet,
        out |-> Return(<<FALSE, "Could not fetch market data from yfinance">>)]
  ELSE FetchStatements(s, p)

(***************************************************************************)
(* The calculator as a state machine.  last records the latest call: the   *)
(* method, its arguments (for fetch_data: what the providers answered) and *)
(* how it ended.                                                           *)
(***************************************************************************)
Stale(df) == [df EXCEPT !.fresh = FALSE]

RaiseDF == [NoneDF EXCEPT !.kind = "raise"]

EmptyDF(provider) == DataFrame(<<>>, <<>>, <<>>, provider)

RaiseInfo == [NoneInfo EXCEPT !.kind = "raise"]

EmptyInfo == [NoneInfo EXCEPT !.kind = "dict"]

InfoA ==
  [NoneInfo EXCEPT !.kind = "dict", !.other = TRUE, !.beta = R(1),
                   !.marketCap = R(700), !.sharesOutstanding = R(100),
                   !.currentPrice = R(50)]

\* the statements the providers may answer with in the fetch_data runs
YfCashflow ==
  DataFrame(<<"Operating Cash Flow", "Capital Expenditure">>,
            <<"2023-12-31", "2022-12-31">>,
            << <<R(110), R(100)>>, <<R(-10), R(-10)>> >>, "yfinance")

YfFinancials ==
  DataFrame(<<"Total Revenue", "Interest Expense">>, <<"2023-12-31", "2022-12-31">>,
            << <<R(900), R(800)>>, <<R(40), R(40)>> >>, "yfinance")

YfBalanceSheet ==
  DataFrame(<<"Total Debt", "Cash And Cash Equivalents">>,
            <<"2023-12-31", "2022-12-31">>,
            << <<R(300), R(300)>>, <<R(100), R(100)>> >>, "yfinance")

\* edgartools tables with the periods as rows
SecCashflow ==
  DataFrame(<<"2023-12-31", "2022-12-31">>,
            <<"NetCashProvidedByUsedInOperatingActivities", "CapitalExpenditures">>,
            << <<R(110), R(10)>>, <<R(100), R(10)>> >>, "sec")

SecFinancials ==
  DataFrame(<<"2023-12-31", "2022-12-31">>, <<"Total Revenue", "Interest Expense">>,
            << <<R(900), R(40)>>, <<R(800), R(40)>> >>, "sec")

SecBalanceSheet ==
  DataFrame(<<"2023-12-31", "2022-12-31">>, <<"Total Debt", "Cash And Cash Equivalents">>,
            << <<R(300), R(100)>>, <<R(300), R(100)>> >>, "sec")

\* What a provider answers, by name: the market snapshot, a raw edgartools
\* statement and a yfinance statement.
StockInfo(answer) ==
  CASE answer = "raise" -> RaiseInfo
    [] answer = "empty" -> EmptyInfo
    [] OTHER -> InfoA

SecRaw(statement, answer) ==
  CASE answer = "None" -> NoneDF
    [] answer = "empty" -> EmptyDF("sec")
    [] statement = "balance_sheet" -> SecBalanceSheet
    [] statement = "income_statement" -> SecFinancials
    [] OTHER -> SecCashflow

YfRaw(statement, answer) ==
  CASE answer = "raise" -> RaiseDF
    [] answer = "empty" -> EmptyDF("yfinance")
    [] statement = "balance_sheet" -> YfBalanceSheet
    [] statement = "financials" -> YfFinancials
    [] OTHER -> YfCashflow

Providers(a) ==
  [info |-> StockInfo(a.info), sec |-> a.sec,
   sec_balance_sheet |-> SecRaw("balance_sheet", a.sec_balance_sheet),
   sec_income_statement |-> SecRaw("income_statement", a.sec_income_statement),
   sec_cash_flow |-> SecRaw("cash_flow", a.sec_cash_flow),
   yf_financials |-> YfRaw("financials", a.yf_financials),
   yf_cashflow |-> YfRaw("cashflow", a.yf_cashflow),
   yf_balance_sheet |-> YfRaw("balance_sheet", a.yf_balance_sheet)]

\* The answers of one fetch_data call.  sec = "nofilings" stands for both
\* answers without statements (no 10-K filing, a filing without financials);
\* the yfinance statements are read in the order financials, cashflow,
\* balance_sheet, and at most one read raises.
Answers ==
  { a \in [info : {"raise", "empty", "dict"},
           sec : {"raise", "nofilings", "ok"},
           sec_balance_sheet : {"None", "table"},
           sec_income_statement : {"None", "table"},
           sec_cash_flow : {"None", "empty", "table"},
           yf_financials : {"raise", "empty", "table"},
           yf_cashflow : {"raise", "empty", "table"},
           yf_balance_sheet : {"raise", "table"}] :
      /\ (a.sec # "ok" =>
            /\ a.sec_balance_sheet = "None"
            /\ a.sec_income_statement = "None"
            /\ a.sec_cash_flow = "None")
      /\ (a.sec = "ok" => a.sec_cash_flow # "None")
      /\ (a.info # "dict" =>
            /\ a.sec = "raise"
            /\ a.yf_financials = "raise")
      /\ (a.yf_financials = "raise" =>
            a.yf_cashflow = "table" /\ a.yf_balance_sheet = "table")
      /\ (a.yf_cashflow = "raise" => a.yf_balance_sheet = "table") }

Calculator ==
  [info |-> info, financials |-> Stale(financials), cashflow |-> Stale(cashflow),
   balance_sheet |-> Stale(balance_sheet), use_sec_data |-> use_sec_data]

FetchData ==
  \E a \in Answers :
    \* without edgartools the filing source is never asked
    /\ (~use_sec_data => a.sec = "raise")
    /\ LET r == fetch_data(Calculator, Providers(a))
       IN  /\ info' = r.info
           /\ financials' = r.financials
           /\ cashflow' = r.cashflow
           /\ balance_sheet' = r.balance_sheet
           /\ last' = [op |-> "fetch_data", answers |-> a, out |-> r.out]
           /\ UNCHANGED use_sec_data

\* __init__
InitFetch ==
  /\ info = NoneInfo
  /\ financials = NoneDF
  /\ cashflow = NoneDF
  /\ balance_sheet = NoneDF
  /\ use_sec_data \in BOOLEAN
  /\ last = [op |-> "__init__"]

NextFetch == FetchData

SpecFetch == InitFetch /\ [][NextFetch]_vars

(***************************************************************************)
(* get_free_cash_flow on the cash-flow statements of a bounded universe    *)
(***************************************************************************)
MaxRows == 3

MaxPeriods == 2

MaxYearsArg == 2

\* the sequences without repetition of at most n elements of S
DistinctSeqs(S, n) ==
  { s \in UNION { [1..k -> S] : k \in 0..n } :
      \A i, j \in 1..Len(s) : i # j => s[i] # s[j] }

\* every choice and order of at most MaxRows row labels, two periods
ResolutionTables ==
  { DataFrame(idx, <<"2023-12-31", "2022-12-31">>,
              [r \in 1..Len(idx) |-> <<R(100 * r), R(100 * r + 10)>>], "yfinance") :
      idx \in DistinctSeqs(CashflowLabels, MaxRows) }

\* the two rows of the computation over every choice and order of at most
\* MaxPeriods periods and every choice of cells
ValueTables ==
  UNION { { DataFrame(<<"Operating Cash Flow", "Capital Expenditure">>, cols,
                      <<o, c>>, "yfinance") :
              o \in [1..Len(cols) -> {R(100), R(-20), NaN}],
              c \in [1..Len(cols) -> {R(30), R(0), R(-30), NaN}] } :
          cols \in DistinctSeqs({"2023-12-31", "2022-12-31", "2021-12-31"}, MaxPeriods) }

FivePeriods ==
  <<"2023-12-31", "2022-12-31", "2021-12-31", "2020-12-31", "2019-12-31">>

FiveYearTable ==
  DataFrame(<<"Operating Cash Flow", "Capital Expenditure">>, FivePeriods,
            << <<R(500), R(450), R(400), R(350), R(300)>>,
               <<R(-50), R(-45), R(-40), R(-35), R(-30)>> >>, "yfinance")

FcfTables == ResolutionTables \cup ValueTables \cup {FiveYearTable}

YearsArgs == (0..MaxYearsArg) \cup {FcfYears}

GetFreeCashFlow ==
  \E years \in YearsArgs :
    LET r == get_free_cash_flow(cashflow, years)
    IN  /\ last' = [op |-> "get_free_cash_flow", years |-> years,
                    out |-> Return(r.ret), operating_cf |-> r.operating_cf,
                    capex |-> r.capex]
        /\ UNCHANGED <<info, financials, cashflow, balance_sheet, use_sec_data>>

InitFcf ==
  /\ info = NoneInfo
  /\ financials = NoneDF
  /\ cashflow \in FcfTables \cup {NoneDF}
  /\ balance_sheet = NoneDF
  /\ use_sec_data = FALSE
  /\ last = [op |-> "__init__"]

NextFcf == GetFreeCashFlow

SpecFcf == InitFcf /\ [][NextFcf]_vars

(***************************************************************************)
(* The valuation methods on the calculator states of a bounded universe    *)
(***************************************************************************)
MaxProjectionYears == 2

Periods3 == <<"2023-12-31", "2022-12-31", "2021-12-31">>

CashflowOf(ocf, capex) ==
  DataFrame(<<"Operating Cash Flow", "Capital Expenditure">>,
            SubSeq(Periods3, 1, Len(ocf)), <<ocf, capex>>, "yfinance")

\* FCF 121, 110, 100: every method estimates a growth of 10%
CfGrowing == CashflowOf(<<R(111), R(100), R(90)>>, <<R(-10), R(-10), R(-10)>>)

\* FCF -100, 50, 100
CfNegative == CashflowOf(<<R(-110), R(40), R(90)>>, <<R(-10), R(-10), R(-10)>>)

\* FCF NaN, 110
CfNaN == CashflowOf(<<NaN, R(100)>>, <<R(-10), R(-10)>>)

\* FCF 100
CfSingle == CashflowOf(<<R(90)>>, <<R(-10)>>)

CfNoCapex ==
  DataFrame(<<"Operating Cash Flow">>, Periods3, << <<R(111), R(100), R(90)>> >>,
            "yfinance")

\* a row without cells
BsNoCells == DataFrame(<<"Total Debt">>, <<>>, << <<>> >>, "yfinance")

InfoB ==
  [NoneInfo EXCEPT !.kind = "dict", !.other = TRUE, !.beta = NaN,
                   !.marketCap = None, !.sharesOutstanding = R(0),
                   !.currentPrice = None]

Methods == {"average", "cagr", "recent"}

DefaultRiskFreeRate == Q(4, 100)

DefaultMarketRiskPremium == Q(6, 100)

CalculateGrowthRate ==
  \E method \in Methods :
    /\ last' = [op |-> "calculate_growth_rate", method |-> method,
                out |-> Return(calculate_growth_rate(cashflow, method))]
    /\ UNCHANGED <<info, financials, cashflow, balance_sheet, use_sec_data>>

\* the defaults of the signature, a zero rate and a negative premium
CalculateWacc ==
  \E risk_free_rate \in {DefaultRiskFreeRate, R(0)},
     market_risk_premium \in {DefaultMarketRiskPremium, Q(-6, 100)} :
    /\ last' = [op |-> "calculate_wacc",
                risk_free_rate |-> risk_free_rate,
                market_risk_premium |-> market_risk_premium,
                out |-> Return(calculate_wacc(info, financials, balance_sheet,
                                              risk_free_rate, market_risk_premium))]
    /\ UNCHANGED <<info, financials, cashflow, balance_sheet, use_sec_data>>

\* a manual growth rate comes with the default method; an estimated discount
\* rate (13/160 and the like) with at most two years, beyond which the exact
\* numerators and denominators leave the range of the integers
DcfArgs ==
  { a \in [growth_rate : {None, Q(-9, 10), Q(1, 10), R(2)},
           growth_method : Methods,
           discount_rate : {None, Q(10, 100), Q(25, 1000)},
           risk_free_rate : {DefaultRiskFreeRate},
           market_risk_premium : {DefaultMarketRiskPremium},
           projection_years : 0..MaxProjectionYears,
           terminal_growth_rate : {Q(25, 1000), Q(10, 100)}] :
      /\ ~IsNone(a.growth_rate) => a.growth_method = "average"
      /\ IsNone(a.discount_rate) => a.projection_years <= 2 }

\* calculate_dcf writing the share count it used back into self.info
CalculateDcfStoringShares ==
  \E a \in DcfArgs :
    /\ last' = [op |-> "calculate_dcf", args |-> a,
                out |-> calculate_dcf(info, financials, cashflow, balance_sheet, a)]
    /\ info' = IF InfoTruthy(info)
               THEN [info EXCEPT !.sharesOutstanding = SharesOutstanding(info)]
               ELSE info
    /\ UNCHANGED <<financials, cashflow, balance_sheet, use_sec_data>>

CalculateDcf ==
  \E a \in DcfArgs :
    /\ last' = [op |-> "calculate_dcf", args |-> a,
                out |-> calculate_dcf(info, financials, cashflow, balance_sheet, a)]
    /\ UNCHANGED <<info, financials, cashflow, balance_sheet, use_sec_data>>

InitDcf ==
  /\ info \in { NoneInfo, InfoA, InfoB,
                [InfoA EXCEPT !.sharesOutstanding = None],
                [InfoA EXCEPT !.sharesOutstanding = Absent] }
  /\ financials \in {NoneDF, YfFinancials}
  \* the last three tables give the FCF series 110, 100; 110, NaN and
  \* 110, 0, 110
  /\ cashflow \in { NoneDF, CfGrowing, CfNegative, CfNaN, CfSingle, CfNoCapex,
                    CashflowOf(<<R(100), R(90)>>, <<R(-10), R(-10)>>),
                    CashflowOf(<<R(100), NaN>>, <<R(-10), R(-10)>>),
                    CashflowOf(<<R(100), R(-10), R(100)>>,
                               <<R(-10), R(-10), R(-10)>>) }
  /\ balance_sheet \in {NoneDF, EmptyDF("yfinance"), YfBalanceSheet, BsNoCells}
  /\ use_sec_data = FALSE
  /\ last = [op |-> "__init__"]

\* The caller makes one call at a time and drops its result before the next:
\* no method called here writes a field of the calculator, so the calls of a
\* longer sequence start from the same fields.
Idle == last.op = "__init__"

Forget ==
  /\ ~Idle
  /\ last' = [op |-> "__init__"]
  /\ UNCHANGED <<info, financials, cashflow, balance_sheet, use_sec_data>>

NextDcf ==
  \/ Idle /\ GetFreeCashFlow
  \/ Idle /\ CalculateGrowthRate
  \/ Idle /\ CalculateWacc
  \/ Idle /\ CalculateDcf
  \/ Forget

SpecDcf == InitDcf /\ [][NextDcf]_vars

(***************************************************************************)
(* The claims                                                              *)
(***************************************************************************)
IsFetch == last.op = "fetch_data"

IsFcf == last.op = "get_free_cash_flow"

IsDcf == last.op = "calculate_dcf"

\* the call returned, and with a dict that has the key
Returned(key) == last.out.exc = "" /\ key \in DOMAIN last.out.val

\* the cell of row and column label col
Cell(df, row, col) ==
  LET c == CHOOSE c \in 1..Len(df.columns) : df.columns[c] = col
  IN  Loc(df, row).values[c]

\* C1: whenever calculate_dcf is given a discount rate at or below the
\* terminal growth rate and returns, what it returns is a failure (a dict
\* with an 'error' key), never a valuation.
C1_RejectsDiscountNotAboveTerminalGrowth ==
  ( /\ IsDcf
    /\ ~IsNone(last.args.discount_rate)
    /\ Le(last.args.discount_rate, last.args.terminal_growth_rate)
    /\ last.out.exc = "" )
  => "error" \in DOMAIN last.out.val

\* C2: the growth rate a valuation reports, supplied or estimated, lies in
\* [-0.20, 0.50].
C2_GrowthRateWithinBounds ==
  (IsDcf /\ Returned("growth_rate"))
  => /\ Ge(last.out.val.growth_rate, GrowthFloor)
     /\ Le(last.out.val.growth_rate, GrowthCap)

\* C3: every period of the series get_free_cash_flow returns holds the
\* operating cash flow minus the magnitude of the capital expenditure
\* (100 and 30 give 70).
C3_FcfIsOcfMinusCapexMagnitude ==
  (IsFcf /\ last.operating_cf # NoRow /\ last.capex # NoRow)
  => \A k \in 1..Len(last.out.val.index) :
       LET ocf == Cell(cashflow, last.operating_cf, last.out.val.index[k])
           capex == Cell(cashflow, last.capex, last.out.val.index[k])
       IN  (IsFinite(ocf) /\ IsFinite(capex))
           => last.out.val.values[k] = Sub(ocf, Abs(capex))

\* the table with the cells of one row negated
NegateRow(df, row) ==
  [df EXCEPT !.data = [r \in 1..Len(df.index) |->
                        IF df.index[r] = row
                        THEN [c \in 1..Len(df.columns) |-> Neg(df.data[r][c])]
                        ELSE df.data[r]]]

AllNonNegative(values) == \A k \in 1..Len(values) : Ge(values[k], R(0))

\* C4: when no cell of the capex row is negative, get_free_cash_flow returns
\* the same series for the statement that reports the same amounts negated.
C4_CapexSignConventionInvariant ==
  (IsFcf /\ last.capex # NoRow /\ AllNonNegative(Loc(cashflow, last.capex).values))
  => get_free_cash_flow(NegateRow(cashflow, last.capex), last.years).ret
       = last.out.val

C4_Witness ==
  /\ IsFcf
  /\ last.operating_cf = "Operating Cash Flow"
  /\ last.capex = "Capital Expenditure"
  /\ Loc(cashflow, last.capex).values = <<R(30), R(0)>>
  /\ Loc(cashflow, last.operating_cf).values = <<R(100), R(-20)>>
  /\ Len(last.out.val.values) = 2

\* the SEC attempt of the latest call gave usable cash-flow and income
\* statements and no balance sheet, and yfinance had one
SecLacksBalanceSheetOnly ==
  /\ IsFetch
  /\ use_sec_data
  /\ last.answers.info = "dict"
  /\ last.answers.sec = "ok"
  /\ last.answers.sec_cash_flow = "table"
  /\ last.answers.sec_income_statement = "table"
  /\ last.answers.sec_balance_sheet = "None"
  /\ last.answers.yf_balance_sheet = "table"

\* C5: a successful fetch_data in which the SEC source lacked only the
\* balance sheet holds the yfinance balance sheet beside the SEC cash-flow
\* and income statements.
C5_BalanceSheetBackfilled ==
  (SecLacksBalanceSheetOnly /\ last.out.val[1])
  => /\ balance_sheet.provider = "yfinance"
     /\ cashflow.provider = "sec"
     /\ financials.provider = "sec"

\* the SEC attempt of the latest call did not supply the statement
SecDidNotSupply(raw) ==
  \/ ~use_sec_data
  \/ last.answers.sec # "ok"
  \/ raw # "table"

\* the three yfinance reads of the latest call would all succeed with a table
YfSuppliesAll ==
  /\ last.answers.yf_financials = "table"
  /\ last.answers.yf_cashflow = "table"
  /\ last.answers.yf_balance_sheet = "table"

\* C6: every statement the SEC source did not supply in a call is the one
\* yfinance supplied in that call, and the call succeeds when yfinance can
\* supply the cash-flow and income statements.
C6_FallbackPerStatement ==
  (IsFetch /\ last.answers.info = "dict" /\ YfSuppliesAll)
  => /\ last.out.val[1]
     /\ SecDidNotSupply(last.answers.sec_cash_flow) => cashflow = YfCashflow
     /\ SecDidNotSupply(last.answers.sec_income_statement)
          => financials = YfFinancials
     /\ SecDidNotSupply(last.answers.sec_balance_sheet)
          => balance_sheet = YfBalanceSheet

FetchMessages ==
  { "Error fetching market data", "Could not fetch market data from yfinance",
    "Success (SEC XBRL data)", "Could not fetch financial statements",
    "Financial statements are empty", "Success" }

\* C7: every fetch_data call ends by returning a pair (ok, message), whatever
\* the providers answer or raise, and ok is False when the market snapshot
\* could not be had or a cash-flow or income statement is missing.
C7_FetchReturnsPair ==
  IsFetch
  => /\ last.out.exc = ""
     /\ last.out.val[1] \in BOOLEAN
     /\ last.out.val[2] \in FetchMessages
     /\ last.answers.info # "dict" => ~last.out.val[1]
     /\ (IsNoneDF(cashflow) \/ IsNoneDF(financials)) => ~last.out.val[1]

C7_Witness ==
  /\ IsFetch
  /\ last.answers.info = "raise"
  /\ last.out = Return(<<FALSE, "Error fetching market data">>)

\* C8: calculate_dcf never ends in an exception, and a statement without a
\* free-cash-flow series gives a dict that holds 'error' alone.
C8_DcfNeverRaises ==
  IsDcf
  => /\ last.out.exc = ""
     /\ Len(get_free_cash_flow(cashflow, FcfYears).ret.values) = 0
          => DOMAIN last.out.val = {"error"}

IsAlias(keys, label) == \E k \in 1..Len(keys) : keys[k] = label

\* the row the alias list selects: the alias present in the index that no
\* present alias precedes in the list
SelectedByAlias(keys, df, label) ==
  \E k \in 1..Len(keys) :
    /\ keys[k] = label
    /\ InIndex(df, label)
    /\ \A j \in 1..(k - 1) : ~InIndex(df, keys[j])

\* C9: when the statement has a row labelled with an alias of the concept,
\* the row resolved is the one of the first such alias of the list, whatever
\* the order of the rows and the keyword matches among them.
C9_AliasPriority ==
  (IsFcf /\ ~IsNoneDF(cashflow))
  => /\ (\E i \in 1..Len(cashflow.index) : IsAlias(operating_cf_keys, cashflow.index[i]))
          => SelectedByAlias(operating_cf_keys, cashflow, last.operating_cf)
     /\ (\E i \in 1..Len(cashflow.index) : IsAlias(capex_keys, cashflow.index[i]))
          => SelectedByAlias(capex_keys, cashflow, last.capex)

C9_Witness ==
  /\ IsFcf
  /\ cashflow.index = << "Net Cash From Operating Activity",
                         "Total Cash From Operating Activities",
                         "Operating Cash Flow" >>
  /\ last.operating_cf = "Operating Cash Flow"

\* some row of the statement carries an alias or satisfies the keywords
OperatingCfResolves(df) ==
  \E i \in 1..Len(df.index) :
    IsAlias(operating_cf_keys, df.index[i]) \/ OperatingKeyword(df.index[i])

CapexResolves(df) ==
  \E i \in 1..Len(df.index) :
    IsAlias(capex_keys, df.index[i]) \/ CapexKeyword(df.index[i])

\* C10: get_free_cash_flow returns the empty series when there is no
\* cash-flow statement or one of the two concepts resolves to no row.
C10_EmptyWhenUnresolved ==
  (IsFcf /\ (IsNoneDF(cashflow) \/ ~OperatingCfResolves(cashflow)
                                \/ ~CapexResolves(cashflow)))
  => last.out = Return(EmptySeries)

C10_Witness ==
  /\ IsFcf
  /\ cashflow.index = <<"Operating Cash Flow", "Net Income">>
  /\ last.operating_cf = "Operating Cash Flow"
  /\ last.capex = NoRow
  /\ last.out = Return(EmptySeries)

(***************************************************************************)
(* normalize_dataframe on raw tables of either orientation                 *)
(***************************************************************************)
MaxAxis == 2

\* labels of a raw SEC table: periods the date test finds, one it does not
\* find ("Sep 30, 2023": no token in its first ten characters), line items
RawAxes ==
  DistinctSeqs({ "2023-12-31", "2022-12-31", "Sep 30, 2023",
                 "Operating Cash Flow", "Capital Expenditure" }, MaxAxis)

\* a raw table whose cells tell their position
RawTable(index, columns) ==
  DataFrame(index, columns,
            [r \in 1..Len(index) |-> [c \in 1..Len(columns) |-> R(10 * r + c)]],
            "sec")

RawTables == { RawTable(i, c) : i \in RawAxes, c \in RawAxes } \cup {NoneDF}

NormalizeDataframe ==
  /\ \E df \in RawTables :
       last' = [op |-> "normalize_dataframe", df |-> df,
                out |-> Return(normalize_dataframe(df))]
  /\ UNCHANGED <<info, financials, cashflow, balance_sheet, use_sec_data>>

InitNormalize ==
  /\ info = NoneInfo
  /\ financials = NoneDF
  /\ cashflow = NoneDF
  /\ balance_sheet = NoneDF
  /\ use_sec_data = TRUE
  /\ last = [op |-> "__init__"]

SpecNormalize == InitNormalize /\ [][NormalizeDataframe]_vars

IsNormalize == last.op = "normalize_dataframe"

AllIn(labels, S) == \A k \in 1..Len(labels) : labels[k] \in S

\* the raw table has its periods as rows and its line items as columns
PeriodsAsRows(df) ==
  /\ df.kind = "DataFrame"
  /\ Len(df.index) > 0
  /\ Len(df.columns) > 0
  /\ AllIn(df.index, PeriodLabels)
  /\ AllIn(df.columns, CashflowLabels)

\* C11: for a raw table with periods as rows, normalize_dataframe returns
\* what it returns for the transposed table.
C11_OrientationInvariant ==
  (IsNormalize /\ PeriodsAsRows(last.df))
  => last.out.val = normalize_dataframe(Transpose(last.df))

\* the table has no rows, or neither its first column label nor its first
\* row label holds a date token
NoPeriodAxis(df) ==
  \/ df.kind # "DataFrame"
  \/ Len(df.index) = 0
  \/ /\ Len(df.columns) > 0 => ~LooksLikePeriod(df.columns[1])
     /\ ~LooksLikePeriod(df.index[1])

\* C12: normalize_dataframe returns None for every table that is empty or
\* shows a date token in neither its first column label nor its first row
\* label.
C12_NoneWithoutPeriodAxis ==
  (IsNormalize /\ NoPeriodAxis(last.df)) => IsNoneDF(last.out.val)

(***************************************************************************)
(* calculate_wacc on the snapshots and statements of a bounded universe    *)
(***************************************************************************)
\* one-period statements with the cell calculate_wacc reads
DebtOf(total_debt) ==
  DataFrame(<<"Total Debt">>, <<"2023-12-31">>, << <<total_debt>> >>, "yfinance")

InterestOf(interest_expense) ==
  DataFrame(<<"Interest Expense">>, <<"2023-12-31">>, << <<interest_expense>> >>,
            "yfinance")

InitWacc ==
  /\ info \in { NoneInfo, InfoA, InfoB,
                [InfoA EXCEPT !.marketCap = Str],
                [InfoA EXCEPT !.beta = Str],
                [InfoA EXCEPT !.taxRate = NaN],
                [InfoA EXCEPT !.taxRate = R(2)],
                [InfoA EXCEPT !.marketCap = R(-300)],
                [InfoA EXCEPT !.marketCap = R(0), !.beta = R(-1)] }
  /\ financials \in { NoneDF, YfFinancials, InterestOf(R(-40)), InterestOf(R(0)),
                      InterestOf(NaN),
                      DataFrame(<<"Interest Expense">>, <<>>, << <<>> >>, "yfinance") }
  /\ balance_sheet \in { NoneDF, YfBalanceSheet, BsNoCells, DebtOf(R(0)),
                         DebtOf(R(-100)), DebtOf(NaN),
                         DataFrame(<<"Long Term Debt", "Current Debt">>,
                                   <<"2023-12-31">>, << <<R(200)>>, <<R(100)>> >>,
                                   "yfinance") }
  /\ cashflow = NoneDF
  /\ use_sec_data = FALSE
  /\ last = [op |-> "__init__"]

SpecWacc == InitWacc /\ [][CalculateWacc]_vars

IsWacc == last.op = "calculate_wacc"

\* C13: calculate_wacc returns a number that is at least 0.01, whatever the
\* snapshot, the statements and the two rates.
C13_WaccAtLeastFloor ==
  IsWacc => (last.out.exc = "" /\ Ge(last.out.val, WaccFloor))

\* a row read with .iloc[0] has no cells, or a field of the snapshot used in
\* the arithmetic is a string
WaccFailure ==
  \/ /\ ~IsNoneDF(financials)
     /\ InIndex(financials, "Interest Expense")
     /\ Len(financials.columns) = 0
  \/ /\ ~IsNoneDF(balance_sheet)
     /\ InIndex(balance_sheet, "Total Debt")
     /\ Len(balance_sheet.columns) = 0
  \/ /\ info.kind = "dict"
     /\ \E key \in {"beta", "marketCap", "taxRate"} : info[key] = Str

\* C14: when the computation of calculate_wacc raises, the call returns
\* exactly 0.10 and no exception leaves it.
C14_WaccFailureGivesDefault ==
  (IsWacc /\ WaccFailure) => last.out = Return(Q(10, 100))

C14_Witness ==
  /\ IsWacc
  /\ info = InfoA
  /\ financials = DataFrame(<<"Interest Expense">>, <<>>, << <<>> >>, "yfinance")
  /\ balance_sheet = YfBalanceSheet
  /\ last.out = Return(Q(10, 100))

\* calculate_dcf got as far as the net-debt block
ReachesNetDebt ==
  /\ IsDcf
  /\ Len(get_free_cash_flow(cashflow, FcfYears).ret.values) > 0
  /\ last.args.projection_years >= 1

\* a row the net-debt block reads has no cells
NetDebtFailure ==
  /\ ~IsNoneDF(balance_sheet)
  /\ Len(balance_sheet.columns) = 0
  /\ \/ InIndex(balance_sheet, "Total Debt")
     \/ InIndex(balance_sheet, "Cash And Cash Equivalents")

\* C15: a calculate_dcf call that meets a failure in its net-debt block, or
\* has no balance sheet, returns a valuation with net_debt = 0.
C15_NetDebtFailureAbsorbed ==
  (ReachesNetDebt /\ (NetDebtFailure \/ IsNoneDF(balance_sheet)))
  => (Returned("net_debt") /\ last.out.val.net_debt = R(0))

\* sharesOutstanding is absent, None or 0 in the snapshot, or there is no
\* snapshot
NoShareCount ==
  \/ info.kind # "dict"
  \/ info.sharesOutstanding \in {Absent, None, R(0)}

\* C16: a valuation made without a share count reports shares_outstanding = 1
\* and a per_share_value equal to its equity_value.
C16_ShareCountDefaultsToOne ==
  (IsDcf /\ Returned("per_share_value") /\ NoShareCount)
  => /\ last.out.val.shares_outstanding = R(1)
     /\ last.out.val.per_share_value = last.out.val.equity_value

C16_Witness ==
  /\ IsDcf
  /\ info = InfoB
  /\ cashflow = CfGrowing
  /\ Returned("per_share_value")
  /\ last.out.val.shares_outstanding = R(1)
  /\ IsFinite(last.out.val.equity_value)
  /\ Gt(last.out.val.equity_value, R(0))

\* C17: the result of a successful calculate_dcf reports the growth rate
\* (clamped, estimated when none was supplied), the discount rate (the WACC
\* when none was supplied), the terminal growth rate, the current FCF and the
\* share count from which its projection, terminal value and per-share value
\* are computed.
C17_ReportsAssumptionsUsed ==
  (IsDcf /\ Returned("projected_fcf"))
  => LET v == last.out.val
         a == last.args
         n == Len(v.projected_fcf)
     IN  /\ v.growth_rate =
              ClampGrowth(IF IsNone(a.growth_rate)
                          THEN calculate_growth_rate(cashflow, a.growth_method)
                          ELSE a.growth_rate)
         /\ v.discount_rate =
              IF IsNone(a.discount_rate)
              THEN calculate_wacc(info, financials, balance_sheet,
                                  a.risk_free_rate, a.market_risk_premium)
              ELSE a.discount_rate
         /\ v.terminal_growth_rate = a.terminal_growth_rate
         /\ v.current_fcf = get_free_cash_flow(cashflow, FcfYears).ret.values[1]
         /\ n = a.projection_years
         /\ \A y \in 1..n :
              /\ v.projected_fcf[y].fcf
                   = Mul(v.current_fcf, Pow(Add(R(1), v.growth_rate), y))
              /\ v.projected_fcf[y].discounted_fcf
                   = Div(v.projected_fcf[y].fcf, Pow(Add(R(1), v.discount_rate), y))
         /\ v.terminal_value
              = Div(Mul(v.projected_fcf[n].fcf, Add(R(1), v.terminal_growth_rate)),
                    Sub(v.discount_rate, v.terminal_growth_rate))
         /\ v.discounted_terminal_value
              = Div(v.terminal_value, Pow(Add(R(1), v.discount_rate), n))
         /\ v.per_share_value = Div(v.equity_value, v.shares_outstanding)

C17_Witness ==
  /\ IsDcf
  /\ cashflow = CfGrowing
  /\ info = InfoA
  /\ IsNone(last.args.growth_rate)
  /\ IsNone(last.args.discount_rate)
  /\ last.args.projection_years = 2
  /\ Returned("growth_rate")
  /\ last.out.val.growth_rate = Q(1, 10)
  /\ last.out.val.projected_fcf[2].fcf = Q(14641, 100)

\* C18: a calculate_dcf call leaves info, financials, cashflow and
\* balance_sheet as they were and ends as the calculator's fields and the
\* assumptions determine, whatever calls came before; the other valuation
\* methods leave the fields alone as well.
C18_DcfIsPure ==
  [][ /\ last'.op \in {"calculate_dcf", "calculate_wacc", "calculate_growth_rate",
                       "get_free_cash_flow"}
        => UNCHANGED <<info, financials, cashflow, balance_sheet>>
      /\ last'.op = "calculate_dcf"
        => last'.out = calculate_dcf(info', financials', cashflow', balance_sheet',
                                     last'.args) ]_vars

C18_Witness ==
  /\ IsDcf
  /\ info = InfoB
  /\ balance_sheet = YfBalanceSheet
  /\ cashflow = CfGrowing
  /\ Returned("equity_value")

(***************************************************************************)
(* DCFWorker.run of src/main.py: fetch, then compute, then one signal.     *)
(* last holds the worker: its arguments w, its position pc, what the two   *)
(* calls gave and the signals emitted so far; the calculator's fields are  *)
(* those of the run's own calc.                                            *)
(***************************************************************************)
\* the years the worker's projection runs; main.py passes 10, which changes
\* the numbers of a result and neither its keys nor the signal it leads to
WorkerProjectionYears == 1

\* the arguments of DCFWorker.__init__; a discount rate of 0 asks for the
\* WACC, None is a value only a caller other than the form passes
WorkerArgs ==
  [growth_method : {"manual", "average"}, growth_rate : {Q(1, 10)},
   discount_rate : {R(0), Q(10, 100), None},
   risk_free_rate : {DefaultRiskFreeRate},
   market_risk_premium : {DefaultMarketRiskPremium},
   terminal_growth_rate : {Q(25, 1000)}]

Emit(w, signal) == [w EXCEPT !.pc = "done", !.emitted = Append(@, signal)]

\* what the providers can answer a worker whose calculator has
\* use_sec_data = u: the answers of fetch_data, and those with a yfinance
\* cash-flow statement that holds no capital-expenditure row
WorkerProviders(u) ==
  LET asked == { a \in Answers : ~u => a.sec = "raise" }
  IN  { Providers(a) : a \in asked }
        \cup { [Providers(a) EXCEPT !.yf_cashflow = CfNoCapex] :
                 a \in { x \in asked : x.yf_cashflow = "table" } }

\* lines 37-42: calc = DCFCalculator(ticker); success, message = calc.fetch_data()
WorkerFetch ==
  /\ last.pc = "fetch"
  /\ \E p \in WorkerProviders(use_sec_data) :
       LET r == fetch_data(Calculator, p)
           fetched == [last EXCEPT !.fetch = r.out]
       IN  /\ info' = r.info
           /\ financials' = r.financials
           /\ cashflow' = r.cashflow
           /\ balance_sheet' = r.balance_sheet
           /\ last' = IF r.out.exc # "" THEN Emit(fetched, "error")
                      ELSE IF ~r.out.val[1] THEN Emit(fetched, "error")
                      ELSE [fetched EXCEPT !.pc = "compute"]
           /\ UNCHANGED use_sec_data

\* lines 45-56: the arguments run passes to calculate_dcf
WorkerDcfArgs(w) ==
  [growth_rate |-> IF w.growth_method = "manual" THEN w.growth_rate ELSE None,
   growth_method |-> IF w.growth_method = "manual" THEN "None" ELSE w.growth_method,
   discount_rate |-> IF Gt(w.discount_rate, R(0)) THEN w.discount_rate ELSE None,
   risk_free_rate |-> w.risk_free_rate,
   market_risk_premium |-> w.market_risk_premium,
   projection_years |-> WorkerProjectionYears,
   terminal_growth_rate |-> w.terminal_growth_rate]

\* lines 45-56: what calc.calculate_dcf(...) gives, for each calculator a
\* successful calc.fetch_data() leaves the worker with and each set of the
\* worker's arguments
WorkerDcf ==
  LET fetched ==
        UNION { { fetch_data([info |-> NoneInfo, financials |-> Stale(NoneDF),
                              cashflow |-> Stale(NoneDF),
                              balance_sheet |-> Stale(NoneDF),
                              use_sec_data |-> u], p) :
                    p \in WorkerProviders(u) } : u \in BOOLEAN }
      calculators ==
        { [info |-> f.info, financials |-> f.financials, cashflow |-> f.cashflow,
           balance_sheet |-> f.balance_sheet] :
            f \in { g \in fetched : g.out.exc = "" /\ g.out.val[1] } }
  IN  { [calc |-> c, w |-> w,
         out |-> IF IsNone(w.discount_rate) THEN Raise("TypeError")
                 ELSE calculate_dcf(c.info, c.financials, c.cashflow,
                                    c.balance_sheet, WorkerDcfArgs(w))] :
          c \in calculators, w \in WorkerArgs }

\* lines 58-63 with the else left out: finished follows the error signal
WorkerComputeWithoutElse ==
  /\ last.pc = "compute"
  /\ \E t \in WorkerDcf :
       /\ t.calc = [info |-> info, financials |-> financials,
                    cashflow |-> cashflow, balance_sheet |-> balance_sheet]
       /\ t.w = last.w
       /\ last' = IF t.out.exc # "" THEN Emit([last EXCEPT !.dcf = t.out], "error")
                  ELSE IF "error" \in DOMAIN t.out.val
                  THEN Emit(Emit([last EXCEPT !.dcf = t.out], "error"), "finished")
                  ELSE Emit([last EXCEPT !.dcf = t.out], "finished")
  /\ UNCHANGED <<info, financials, cashflow, balance_sheet, use_sec_data>>

\* lines 44-68: 'self.discount_rate > 0' raises TypeError on None; the handler
\* of line 65 turns every exception into an error signal
WorkerCompute ==
  /\ last.pc = "compute"
  /\ \E t \in WorkerDcf :
       /\ t.calc = [info |-> info, financials |-> financials,
                    cashflow |-> cashflow, balance_sheet |-> balance_sheet]
       /\ t.w = last.w
       /\ last' = IF t.out.exc # "" THEN Emit([last EXCEPT !.dcf = t.out], "error")
                  ELSE IF "error" \in DOMAIN t.out.val
                  THEN Emit([last EXCEPT !.dcf = t.out], "error")
                  ELSE Emit([last EXCEPT !.dcf = t.out], "finished")
  /\ UNCHANGED <<info, financials, cashflow, balance_sheet, use_sec_data>>

InitWorker ==
  /\ info = NoneInfo
  /\ financials = NoneDF
  /\ cashflow = NoneDF
  /\ balance_sheet = NoneDF
  /\ use_sec_data \in BOOLEAN
  /\ last \in { [op |-> "DCFWorker.run", pc |-> "fetch", w |-> w, fetch |-> Raise("not called"),
                 dcf |-> Raise("not called"), emitted |-> <<>>] : w \in WorkerArgs }

NextWorker == WorkerFetch \/ WorkerCompute

\* the thread, once started, runs to the end of run
SpecWorker == InitWorker /\ [][NextWorker]_vars /\ WF_vars(NextWorker)

\* C19: every run of the worker ends having emitted exactly one signal,
\* 'finished' or 'error', and never emits a second; 'finished' is emitted
\* only after a successful fetch and a result without an 'error' key.
C19_OneCompletionSignal ==
  /\ [](Len(last.emitted) <= 1)
  /\ [](last.pc = "done" => Len(last.emitted) = 1)
  /\ [](\A k \in 1..Len(last.emitted) :
          /\ last.emitted[k] \in {"finished", "error"}
          /\ last.emitted[k] = "finished"
               => /\ last.fetch.exc = ""
                  /\ last.fetch.val[1]
                  /\ last.dcf.exc = ""
                  /\ "error" \notin DOMAIN last.dcf.val)
  /\ <>(last.pc = "done")

C19_Witness ==
  /\ last.op = "DCFWorker.run"
  /\ last.pc = "done"
  /\ last.emitted = <<"finished">>
  /\ last.w.discount_rate = R(0)

(***************************************************************************)
(* calculate_growth_rate on short histories and on the series 110, 100.    *)
(***************************************************************************)
IsGrowth == last.op = "calculate_growth_rate"

\* the FCF series calculate_growth_rate reads from the calculator
FcfHistory == get_free_cash_flow(cashflow, FcfYears).ret.values

\* C20: calculate_growth_rate returns 0.0 for every method when the FCF
\* series has fewer than 2 periods, and 0.10 for the series [110, 100] with
\* method 'recent'.
C20_GrowthOfShortAndRecentSeries ==
  IsGrowth =>
    /\ last.method \in Methods /\ Len(FcfHistory) < 2 => last.out = Return(R(0))
    /\ last.method = "recent" /\ FcfHistory = <<R(110), R(100)>>
         => last.out = Return(Q(10, 100))

C20_Witness ==
  /\ IsGrowth
  /\ last.method = "recent"
  /\ FcfHistory = <<R(110), R(100)>>
  /\ last.out = Return(Q(1, 10))

(***************************************************************************)
(* The keyword fallback of the operating cash flow.                        *)
(***************************************************************************)
\* the labels whose lower-cased text contains "operating" and "activit"
OperatingActivitOf ==
  [label \in Labels |->
    LET idx_str == lower(Chars[label])
    IN  /\ Contains(idx_str, Chars["operating"])
        /\ Contains(idx_str, SubSeq(Chars["activity"], 1, 7))]

NoOperatingAlias(df) ==
  \A i \in 1..Len(df.index) : ~IsAlias(operating_cf_keys, df.index[i])

\* C21: when no alias of the operating cash flow matches, the first row in
\* row order whose lower-cased label contains "operating" and "activit" is
\* the operating-cash-flow row, and with capex resolved the FCF series of a
\* call for at least one year is not empty.
C21_OperatingKeywordFallback ==
  ( /\ IsFcf
    /\ ~IsNoneDF(cashflow)
    /\ NoOperatingAlias(cashflow)
    /\ \E i \in 1..Len(cashflow.index) : OperatingActivitOf[cashflow.index[i]]
    /\ last.capex # NoRow )
  => /\ \E i \in 1..Len(cashflow.index) :
          /\ last.operating_cf = cashflow.index[i]
          /\ OperatingActivitOf[cashflow.index[i]]
          /\ \A j \in 1..(i - 1) : ~OperatingActivitOf[cashflow.index[j]]
     /\ last.years >= 1 => Len(last.out.val.values) > 0

(***************************************************************************)
(* fetch_data step by step: the requests one call makes of its providers,  *)
(* in the order of the code.  last holds the call: its position pc, what   *)
(* the providers answer, the requests made so far (asked), whether the     *)
(* filing source's attempt of lines 46-120 is under way (sec) and the      *)
(* result once the call has returned.                                      *)
(***************************************************************************)
Ask(call, request) == [call EXCEPT !.asked = Append(@, request)]

Finish(call, result) == [call EXCEPT !.pc = "done", !.out = Return(result)]

\* lines 35-42: self.info = self.stock.info, of a calculator not in a call
FetchInfo ==
  /\ IF last.op = "__init__" THEN TRUE ELSE last.pc = "done"
  /\ \E a \in Answers :
       /\ (~use_sec_data => a.sec = "raise")
       /\ LET p == Providers(a)
              call == [op |-> "fetch_data", pc |-> "sec", answers |-> a,
                       asked |-> <<"stock.info">>, sec |-> "not asked",
                       out |-> Raise("running")]
          IN  /\ info' = IF p.info.kind = "raise" THEN info ELSE p.info
              /\ last' = IF p.info.kind = "raise"
                         THEN Finish(call, <<FALSE, "Error fetching market data">>)
                         ELSE IF ~InfoTruthy(p.info)
                         THEN Finish(call, <<FALSE, "Could not fetch market data from yfinance">>)
                         ELSE call
  /\ financials' = Stale(financials)
  /\ cashflow' = Stale(cashflow)
  /\ balance_sheet' = Stale(balance_sheet)
  /\ UNCHANGED use_sec_data

\* lines 45-53 and 112-120: Company(ticker).get_filings(form="10-K")
SecFilings ==
  /\ last.op = "fetch_data" /\ last.pc = "sec"
  /\ last' = IF ~use_sec_data THEN [last EXCEPT !.pc = "yf_financials"]
             ELSE IF last.answers.sec = "ok"
             THEN [Ask(last, "Company.get_filings") EXCEPT
                     !.pc = "sec_statements", !.sec = "under way"]
             ELSE [Ask(last, "Company.get_filings") EXCEPT
                     !.pc = "yf_financials", !.sec = "finished"]
  /\ UNCHANGED <<info, financials, cashflow, balance_sheet, use_sec_data>>

\* lines 54-111: the three statements of the 10-K, normalised and checked
SecRead ==
  /\ last.op = "fetch_data" /\ last.pc = "sec_statements"
  /\ LET t == SecStatements(Calculator, Providers(last.answers))
         call == [Ask(Ask(Ask(last, "get_balance_sheet"), "get_income_statement"),
                      "get_cash_flow_statement") EXCEPT !.sec = "finished"]
     IN  /\ financials' = t.financials
         /\ cashflow' = t.cashflow
         /\ balance_sheet' = t.balance_sheet
         /\ last' = IF t.done THEN Finish(call, <<TRUE, "Success (SEC XBRL data)">>)
                    ELSE [call EXCEPT !.pc = "yf_financials"]
  /\ UNCHANGED <<info, use_sec_data>>

\* the statement read twice when the first read raises
YfReadRetrying ==
  /\ last.op = "fetch_data"
  /\ \E st \in {"financials", "cashflow", "balance_sheet"} :
       LET held == CASE st = "financials" -> financials
                     [] st = "cashflow" -> cashflow
                     [] OTHER -> balance_sheet
           raw == YfRaw(st, last.answers["yf_" \o st])
           next == CASE st = "financials" -> "yf_cashflow"
                     [] st = "cashflow" -> "yf_balance_sheet"
                     [] OTHER -> "check"
           read == NeedsFallback(held) /\ raw.kind # "raise"
           got == IF read THEN raw ELSE held
       IN  /\ last.pc = "yf_" \o st
           /\ financials' = IF st = "financials" THEN got ELSE financials
           /\ cashflow' = IF st = "cashflow" THEN got ELSE cashflow
           /\ balance_sheet' = IF st = "balance_sheet" THEN got ELSE balance_sheet
           /\ last' = IF ~NeedsFallback(held) THEN [last EXCEPT !.pc = next]
                      ELSE IF raw.kind = "raise"
                      THEN [Ask(Ask(last, "stock." \o st), "stock." \o st)
                              EXCEPT !.pc = "check"]
                      ELSE [Ask(last, "stock." \o st) EXCEPT !.pc = next]
  /\ UNCHANGED <<info, use_sec_data>>

\* lines 123-131: one statement of the fallback, read when it is missing; a
\* read that raises ends the block
YfRead ==
  /\ last.op = "fetch_data"
  /\ \E st \in {"financials", "cashflow", "balance_sheet"} :
       LET held == CASE st = "financials" -> financials
                     [] st = "cashflow" -> cashflow
                     [] OTHER -> balance_sheet
           raw == YfRaw(st, last.answers["yf_" \o st])
           next == CASE st = "financials" -> "yf_cashflow"
                     [] st = "cashflow" -> "yf_balance_sheet"
                     [] OTHER -> "check"
           read == NeedsFallback(held) /\ raw.kind # "raise"
           got == IF read THEN raw ELSE held
       IN  /\ last.pc = "yf_" \o st
           /\ financials' = IF st = "financials" THEN got ELSE financials
           /\ cashflow' = IF st = "cashflow" THEN got ELSE cashflow
           /\ balance_sheet' = IF st = "balance_sheet" THEN got ELSE balance_sheet
           /\ last' = IF ~NeedsFallback(held) THEN [last EXCEPT !.pc = next]
                      ELSE IF raw.kind = "raise"
                      THEN [Ask(last, "stock." \o st) EXCEPT !.pc = "check"]
                      ELSE [Ask(last, "stock." \o st) EXCEPT !.pc = next]
  /\ UNCHANGED <<info, use_sec_data>>

\* lines 133-141
FetchCheck ==
  /\ last.op = "fetch_data" /\ last.pc = "check"
  /\ last' = Finish(last, EssentialCheck(financials, cashflow))
  /\ UNCHANGED <<info, financials, cashflow, balance_sheet, use_sec_data>>

NextSteps == FetchInfo \/ SecFilings \/ SecRead \/ YfRead \/ FetchCheck

SpecSteps == InitFetch /\ [][NextSteps]_vars

SecRequests ==
  { "Company.get_filings", "get_balance_sheet", "get_income_statement",
    "get_cash_flow_statement" }

YfStatementReads == { "stock.financials", "stock.cashflow", "stock.balance_sheet" }

\* C22: within one fetch_data call no provider is asked the same thing
\* twice, and the market-data source's statements are read only once the
\* filing source's attempt is over: no request to the filing source follows
\* such a read, and none is under way when one is made.
C22_ProvidersAskedOnceInSequence ==
  last.op = "fetch_data" =>
    /\ \A i, j \in 1..Len(last.asked) : i # j => last.asked[i] # last.asked[j]
    /\ \A i, j \in 1..Len(last.asked) :
         (i < j /\ last.asked[i] \in YfStatementReads)
           => last.asked[j] \notin SecRequests
    /\ (\E i \in 1..Len(last.asked) : last.asked[i] \in YfStatementReads)
         => last.sec # "under way"

C22_Witness ==
  /\ last.op = "fetch_data"
  /\ last.pc = "done"
  /\ last.asked = << "stock.info", "Company.get_filings", "get_balance_sheet",
                     "get_income_statement", "get_cash_flow_statement",
                     "stock.financials", "stock.cashflow" >>
  /\ last.out = Return(<<FALSE, "Could not fetch financial statements">>)

(***************************************************************************)
(* The order and the length of the FCF series.                             *)
(***************************************************************************)
\* the year a period label of the statements names
PeriodYear(label) ==
  CASE label = "2023-12-31" -> 2023
    [] label = "2022-12-31" -> 2022
    [] label = "2021-12-31" -> 2021
    [] label = "2020-12-31" -> 2020
    [] label = "2019-12-31" -> 2019

\* the position of the latest period among the columns
LatestColumn(df) ==
  CHOOSE c \in 1..Len(df.columns) :
    \A d \in 1..Len(df.columns) : PeriodYear(df.columns[d]) <= PeriodYear(df.columns[c])

RECURSIVE Compounded(_, _)
Compounded(x, y) == IF y = 0 THEN R(1) ELSE Mul(Compounded(x, y - 1), x)

\* the discounted cash flows of the first n entries, added up
RECURSIVE DiscountedTotal(_, _)
DiscountedTotal(entries, n) ==
  IF n = 0 THEN R(0)
  ELSE Add(DiscountedTotal(entries, n - 1), entries[n].discounted_fcf)

\* C24: a successful calculate_dcf for N >= 1 projection years returns N
\* entries numbered 1..N in order, entry y holding current_fcf * (1+g)^y and
\* that amount divided by (1+r)^y for the clamped growth g and the discount
\* rate r, and an enterprise value that is the sum of the discounted amounts
\* plus the discounted terminal value.
C24_ProjectionOfEveryYear ==
  (IsDcf /\ Returned("projected_fcf") /\ last.args.projection_years >= 1)
  => LET v == last.out.val
         N == last.args.projection_years
         g == GrowthUsed(cashflow, last.args)
         r == DiscountUsed(info, financials, balance_sheet, last.args)
     IN  /\ Len(v.projected_fcf) = N
         /\ \A y \in 1..N :
              /\ v.projected_fcf[y].year = y
              /\ v.projected_fcf[y].fcf
                   = Mul(FcfHistory[1], Compounded(Add(R(1), g), y))
              /\ v.projected_fcf[y].discounted_fcf
                   = Div(v.projected_fcf[y].fcf, Compounded(Add(R(1), r), y))
         /\ v.enterprise_value
              = Add(DiscountedTotal(v.projected_fcf, N), v.discounted_terminal_value)

C24_Witness ==
  /\ IsDcf
  /\ Returned("projected_fcf")
  /\ cashflow = CfGrowing
  /\ last.args.growth_rate = R(2)
  /\ last.args.discount_rate = Q(10, 100)
  /\ last.args.projection_years = 2
  /\ last.out.val.projected_fcf[2].year = 2
  /\ last.out.val.projected_fcf[2].fcf = Q(1089, 4)
  /\ last.out.val.projected_fcf[2].discounted_fcf = R(225)

\* the discount rate calculate_dcf works with is above the terminal growth
\* rate, that one above -1, and the current FCF positive
PositivePerpetuity ==
  /\ IsDcf
  /\ last.args.projection_years >= 1
  /\ Len(FcfHistory) > 0
  /\ Gt(FcfHistory[1], R(0))
  /\ Gt(DiscountUsed(info, financials, balance_sheet, last.args),
        last.args.terminal_growth_rate)
  /\ Gt(last.args.terminal_growth_rate, R(-1))

\* C25: whenever the discount rate is above the terminal growth rate, the
\* terminal growth rate above -1 and the current FCF positive, calculate_dcf
\* succeeds with a terminal value and a discounted terminal value that are
\* strictly positive.
C25_PositiveTerminalValue ==
  PositivePerpetuity
  => /\ Returned("terminal_value")
     /\ Gt(last.out.val.terminal_value, R(0))
     /\ Gt(last.out.val.discounted_terminal_value, R(0))

(***************************************************************************)
(* The 'average' estimate of the growth rate.                              *)
(***************************************************************************)
\* the adjacent pairs (i, i + 1) of the series whose denominator is a number
\* other than zero
CountedPairs(f) ==
  { i \in 1..(Len(f) - 1) : ~IsNaN(f[i + 1]) /\ f[i + 1] # R(0) }

\* the growth rates of the counted pairs up to pair n, added up
RECURSIVE CountedGrowth(_, _)
CountedGrowth(f, n) ==
  IF n = 0 THEN R(0)
  ELSE IF n \in CountedPairs(f)
  THEN Add(CountedGrowth(f, n - 1), Div(Sub(f[n], f[n + 1]), Abs(f[n + 1])))
  ELSE CountedGrowth(f, n - 1)

\* C26: with method 'average' calculate_growth_rate returns the mean of
\* (FCF[i] - FCF[i+1]) / |FCF[i+1]| over exactly the adjacent pairs whose
\* denominator is neither zero nor undefined, and 0.0 when no pair is left.
C26_AverageOverCountedPairs ==
  (IsGrowth /\ last.method = "average")
  => last.out =
       Return(IF CountedPairs(FcfHistory) = {} THEN R(0)
              ELSE Div(CountedGrowth(FcfHistory, Len(FcfHistory) - 1),
                       R(Cardinality(CountedPairs(FcfHistory)))))

C26_Witness ==
  /\ IsGrowth
  /\ last.method = "average"
  /\ FcfHistory = <<R(110), R(0), R(110)>>
  /\ last.out = Return(R(-1))

(***************************************************************************)
(* The capital-structure weights of calculate_wacc.                        *)
(***************************************************************************)
\* the market capitalisation of the snapshot, 0 when missing or null, and
\* the total debt of the balance sheet, 0 without one
MarketCapRead == IF IsNone(InfoGet(info, "marketCap", R(0))) THEN R(0)
                 ELSE InfoGet(info, "marketCap", R(0))

TotalDebtRead == IF IsNoneDF(balance_sheet) THEN R(0) ELSE TotalDebt(balance_sheet)

\* C27: in a calculate_wacc call that computes a WACC the weights are
\* marketCap / (marketCap + totalDebt) and totalDebt / (marketCap + totalDebt)
\* and sum to 1 whenever marketCap + totalDebt is not zero, and 0.7 and 0.3
\* when it is zero.
C27_CapitalStructureWeights ==
  (IsWacc /\ ~WaccRaises(info, financials, balance_sheet))
  => LET w == Weights(info, balance_sheet)
         total == Add(MarketCapRead, TotalDebtRead)
     IN  IF total = R(0)
         THEN w.equity_weight = Q(7, 10) /\ w.debt_weight = Q(3, 10)
         ELSE /\ w.equity_weight = Div(MarketCapRead, total)
              /\ w.debt_weight = Div(TotalDebtRead, total)
              /\ Add(w.equity_weight, w.debt_weight) = R(1)

(***************************************************************************)
(* What the calculator holds after a successful fetch_data.                *)
(***************************************************************************)
FetchSucceeded == IsFetch /\ last.out.exc = "" /\ last.out.val[1]

\* a statement that is not None and has at least one period column
HasPeriods(df) == df.kind = "DataFrame" /\ Len(df.columns) > 0

\* C28: whenever fetch_data returns ok=True the calculator holds a cash-flow
\* statement and an income statement that are not None and have a non-empty
\* column axis.
C28_SuccessHoldsEssentialStatements ==
  FetchSucceeded => HasPeriods(cashflow) /\ HasPeriods(financials)

\* a successful fetch that leaves the balance sheet None
C28_Witness ==
  /\ FetchSucceeded
  /\ HasPeriods(cashflow) /\ HasPeriods(financials)
  /\ IsNoneDF(balance_sheet)
  /\ last.out.val[2] = "Success (SEC XBRL data)"

\* the statement is None or was assigned during the latest call
FromLatestCall(df) == IsNoneDF(df) \/ df.fresh

\* C29: whenever the latest fetch_data call of a calculator returns ok=True,
\* every statement the calculator holds was obtained from a provider during
\* that call.
C29_StatementsFromLatestCall ==
  FetchSucceeded
  => /\ FromLatestCall(cashflow)
     /\ FromLatestCall(financials)
     /\ FromLatestCall(balance_sheet)

(***************************************************************************)
(* The sign of the capex row is decided once for the whole row.            *)
(***************************************************************************)
AnyNegative(values) == \E j \in 1..Len(values) : Lt(values[j], R(0))

====
